---- MODULE Spec2Model ----
(***************************************************************************)
(* Transmit / receive descriptor-ring engine of the ionic Ethernet driver  *)
(* (drivers/linux/eth/ionic/ionic_txrx.c).                                 *)
(*                                                                         *)
(* One run of the model is about one hardware queue: a regular TX queue,   *)
(* the hardware-timestamping TX queue, or an RX queue (qtype, fixed by     *)
(* Init).  Every C function is an operator from a program-state record to  *)
(* a program-state record; the actions apply these operators to the        *)
(* variables.  Packets, DMA mappings and pages are tracked by the sets of  *)
(* those the driver owns, so that "released exactly once" is a state       *)
(* predicate.                                                              *)
(***************************************************************************)
EXTENDS Integers, Sequences, FiniteSets, TLC

(***************************************************************************)
(* Bounds of the model.                                                    *)
(***************************************************************************)
LogDescs == 3        \* the ring has 2^LogDescs descriptors
MaxPkts == 2         \* packets the stack hands to ionic_start_xmit in a run
MaxRxErr == 1        \* failed page allocations on an RX queue
MaxRx == 2           \* completions the hardware writes on an RX queue
MaxStop == 4         \* cap on the q->stop counter (bounds busy retries)
MaxSgElems == 1      \* q->max_sg_elems of the modelled queue
MaxLen == 6          \* longest TSO packet, in bytes
MaxMss == 3          \* largest gso_size, in bytes
MaxHdr == 2          \* longest TSO header, in bytes

num_descs == 2 ^ LogDescs
Slots == 0 .. (num_descs - 1)
max_sg_elems == MaxSgElems
NumBufs == max_sg_elems + 1       \* IONIC_MAX_FRAGS: bufs[] of a slot
Pkts == 1 .. MaxPkts

Min(a, b) == IF a < b THEN a ELSE b
\* DIV_ROUND_UP(n, d)
DivRoundUp(n, d) == (n + d - 1) \div d

RECURSIVE SumSeq(_)
SumSeq(s) == IF s = <<>> THEN 0 ELSE Head(s) + SumSeq(Tail(s))

(***************************************************************************)
(* DMA addresses.  0 is the null address, DMA_MAPPING_ERROR is the         *)
(* kernel's all-ones error cookie, and a mapping gets the lowest address   *)
(* of Addrs that is not in use (addresses are reused once unmapped).       *)
(***************************************************************************)
DMA_MAPPING_ERROR == -1
Addrs == 1 .. ((MaxPkts + num_descs) * NumBufs)
dma_mapping_error(a) == a = DMA_MAPPING_ERROR

(***************************************************************************)
(* The segmentation loop of ionic_tx_tso, as a function of the packet      *)
(* length, the header length, the MSS and the lengths of the mapped        *)
(* buffers (bufs[0] is the linear part, the others the fragments).  It     *)
(* returns the descriptors in posting order.  A chunk is addressed by the  *)
(* buffer it lies in and its offset there (frag_addr).                     *)
(***************************************************************************)
\* a walk that does not move frag_addr on after a chunk
RECURSIVE tso_fill_desc_same_addr(_, _, _, _, _, _, _)
tso_fill_desc_same_addr(buflens, bi, frag_buf, frag_off, frag_rem, seg_rem, d) ==
  IF seg_rem = 0
  THEN [bi |-> bi, frag_buf |-> frag_buf, frag_off |-> frag_off,
        frag_rem |-> frag_rem, d |-> d]
  ELSE
    LET grab == frag_rem = 0
        fb == IF grab THEN bi ELSE frag_buf
        fo == IF grab THEN 0 ELSE frag_off
        fr == IF grab
              THEN (IF bi + 1 <= Len(buflens) THEN buflens[bi + 1] ELSE seg_rem)
              ELSE frag_rem
        nbi == IF grab THEN bi + 1 ELSE bi
        chunk_len == Min(fr, seg_rem)
        nd == IF ~d.set
              THEN [d EXCEPT !.set = TRUE, !.buf = fb, !.off = fo,
                             !.len = chunk_len, !.bytes = chunk_len]
              ELSE [d EXCEPT !.elems = Append(@, [buf |-> fb, off |-> fo,
                                                   len |-> chunk_len]),
                             !.nsge = @ + 1,
                             !.bytes = @ + chunk_len]
    IN tso_fill_desc_same_addr(buflens, nbi, fb, fo, fr - chunk_len,
                               seg_rem - chunk_len, nd)

RECURSIVE tso_fill_desc(_, _, _, _, _, _, _)
tso_fill_desc(buflens, bi, frag_buf, frag_off, frag_rem, seg_rem, d) ==
  IF seg_rem = 0
  THEN [bi |-> bi, frag_buf |-> frag_buf, frag_off |-> frag_off,
        frag_rem |-> frag_rem, d |-> d]
  ELSE
    LET grab == frag_rem = 0
        \* grab the next fragment (skb->len is the sum of the buffer
        \* lengths, so the walk never passes the recorded buffers)
        fb == IF grab THEN bi ELSE frag_buf
        fo == IF grab THEN 0 ELSE frag_off
        fr == IF grab
              THEN (IF bi + 1 <= Len(buflens) THEN buflens[bi + 1] ELSE seg_rem)
              ELSE frag_rem
        nbi == IF grab THEN bi + 1 ELSE bi
        chunk_len == Min(fr, seg_rem)
        nd == IF ~d.set
              THEN [d EXCEPT !.set = TRUE, !.buf = fb, !.off = fo,
                             !.len = chunk_len, !.bytes = chunk_len]
              ELSE [d EXCEPT !.elems = Append(@, [buf |-> fb, off |-> fo,
                                                   len |-> chunk_len]),
                             !.nsge = @ + 1,
                             !.bytes = @ + chunk_len]
    IN tso_fill_desc(buflens, nbi, fb, fo + chunk_len, fr - chunk_len,
                     seg_rem - chunk_len, nd)

EmptyTsoDesc ==
  [set |-> FALSE, buf |-> 0, off |-> 0, len |-> 0, nsge |-> 0,
   elems |-> <<>>, bytes |-> 0, sot |-> FALSE, eot |-> FALSE]

RECURSIVE tso_loop(_, _, _, _, _, _, _, _, _, _)
tso_loop(buflens, hdrlen, mss, tso_rem, seg_rem, bi, fbuf, foff, frem, out) ==
  IF tso_rem = 0 THEN out
  ELSE
    LET r == tso_fill_desc(buflens, bi, fbuf, foff, frem, seg_rem,
                           EmptyTsoDesc)
        rem == tso_rem - r.d.bytes
        start == out = <<>>
        done == rem = 0
        desc == [r.d EXCEPT !.sot = start, !.eot = done]
    IN tso_loop(buflens, hdrlen, mss, rem, Min(rem, mss), r.bi, r.frag_buf,
                r.frag_off, r.frag_rem, Append(out, desc))

\* a segmentation that takes the header's length again in every segment
ionic_tx_tso_descs_hdr_each(len, hdrlen, mss, buflens) ==
  tso_loop(buflens, hdrlen, hdrlen + mss, len, Min(len, hdrlen + mss),
           0, 0, 0, 0, <<>>)

ionic_tx_tso_descs(len, hdrlen, mss, buflens) ==
  tso_loop(buflens, hdrlen, mss, len, Min(len, hdrlen + mss), 0, 0, 0, 0, <<>>)

(***************************************************************************)
(* The program state.  info[i] is the software metadata of ring slot i     *)
(* (struct ionic_desc_info) together with the flags of the hardware        *)
(* descriptor written there.  mapped and held are the DMA mappings and the *)
(* packets the driver owns; bad_unmap and double_free record a release of  *)
(* something the driver does not own.                                      *)
(***************************************************************************)
VARIABLES
  qtype,        \* "tx", "hwstamp" (q->features has IONIC_TXQ_F_HWSTAMP), "rx"
  head_idx,     \* q->head_idx
  tail_idx,     \* q->tail_idx
  info,         \* q->info[]
  dbell,        \* head index last written to the doorbell register
  stopped,      \* the subqueue's stopped bit (netif_stop/wake_subqueue)
  stop,         \* q->stop
  wake,         \* q->wake
  drop,         \* q->drop
  dma_map_err,  \* stats->dma_map_err
  mapped,       \* the addresses of the live DMA mappings
  bad_unmap,    \* an unmap was issued for an address that is not mapped
  held,         \* the packets the driver took and has not released
  double_free,  \* a packet was released that the driver does not hold
  xskb,         \* the sk_buff ionic_start_xmit is working on
  xmit_ret,     \* what the last ionic_start_xmit returned
  next_skb,     \* the next packet the stack will submit
  cq,           \* completions written by hardware, not yet serviced
  hw_idx,       \* first descriptor the hardware has not completed
  x_pc,         \* where ionic_start_xmit stands
  s_pc,         \* where ionic_tx_service stands
  s_index,      \* the local 'index' of ionic_tx_service
  mtu,          \* netdev->mtu
  rx_stats,     \* struct ionic_rx_stats of an RX queue
  pages,        \* the pages the driver holds a reference of its own to
  page_ref,     \* of each page: count, its reference count; frags, the
                \* fragments of it that delivered packets hold; and left,
                \* the references nobody holds on pages the driver let go
  delivered,    \* what went up the stack: packets, their bytes, and what
                \* the last packet is made of
  jiffies,         \* the kernel's tick counter
  dbell_jiffies,   \* q->dbell_jiffies: when the doorbell was last rung
  dbell_deadline,  \* q->dbell_deadline: the doorbell's debounce window
  napi_deadline,   \* qcq->napi_deadline: when the timer expires, 0 when it
                   \* is not pending
  linearize        \* stats->linearize

vars == <<qtype, head_idx, tail_idx, info, dbell, stopped, stop, wake, drop,
          dma_map_err, mapped, bad_unmap, held, double_free, xskb, xmit_ret,
          next_skb, cq, hw_idx, x_pc, s_pc, s_index, mtu, rx_stats, pages,
          page_ref, delivered, jiffies, dbell_jiffies, dbell_deadline, napi_deadline,
          linearize>>

NoSkb == [id |-> 0, gso |-> FALSE, len |-> 0, hdrlen |-> 0, mss |-> 0,
          gso_segs |-> 0, buflens |-> <<>>]
NoDesc == [op |-> "NONE", sot |-> FALSE, eot |-> FALSE, bytes |-> 0,
           nsge |-> 0]
\* struct ionic_buf_info, zeroed
NoBuf == [page |-> 0, page_offset |-> 0, dma_addr |-> 0, pagecnt_bias |-> 0]
\* no page allocated, no reference counted
NoPageRef == [count |-> [p \in Addrs |-> 0], frags |-> [p \in Addrs |-> 0],
              left |-> 0]
EmptyInfo == [cb |-> "NULL", cb_arg |-> 0, nbufs |-> 0,
              bufs |-> [i \in 0 .. (NumBufs - 1) |-> NoBuf], desc |-> NoDesc]

\* the program state as one record, and its write-back to the variables
Cur ==
  [qtype |-> qtype, head_idx |-> head_idx, tail_idx |-> tail_idx,
   info |-> info, dbell |-> dbell, stopped |-> stopped, stop |-> stop,
   wake |-> wake, drop |-> drop, dma_map_err |-> dma_map_err,
   mapped |-> mapped, bad_unmap |-> bad_unmap, held |-> held,
   double_free |-> double_free, xskb |-> xskb,
   xmit_ret |-> xmit_ret, next_skb |-> next_skb, x_pc |-> x_pc,
   mtu |-> mtu, rx_stats |-> rx_stats, pages |-> pages,
   page_ref |-> page_ref,
   delivered |-> delivered, jiffies |-> jiffies,
   dbell_jiffies |-> dbell_jiffies, dbell_deadline |-> dbell_deadline,
   napi_deadline |-> napi_deadline, linearize |-> linearize,
   cq |-> cq, ret |-> 0, skb |-> <<>>,
   rung |-> FALSE, armed |-> FALSE]

Apply(s) ==
  /\ head_idx' = s.head_idx
  /\ tail_idx' = s.tail_idx
  /\ info' = s.info
  /\ dbell' = s.dbell
  /\ stopped' = s.stopped
  /\ stop' = s.stop
  /\ wake' = s.wake
  /\ drop' = s.drop
  /\ dma_map_err' = s.dma_map_err
  /\ mapped' = s.mapped
  /\ bad_unmap' = s.bad_unmap
  /\ held' = s.held
  /\ double_free' = s.double_free
  /\ xskb' = s.xskb
  /\ xmit_ret' = s.xmit_ret
  /\ next_skb' = s.next_skb
  /\ x_pc' = s.x_pc
  /\ mtu' = s.mtu
  /\ rx_stats' = s.rx_stats
  /\ pages' = s.pages
  /\ page_ref' = s.page_ref
  /\ delivered' = s.delivered
  /\ jiffies' = s.jiffies
  /\ dbell_jiffies' = s.dbell_jiffies
  /\ dbell_deadline' = s.dbell_deadline
  /\ napi_deadline' = s.napi_deadline
  /\ linearize' = s.linearize

\* the value computed by one step of a loop: S is { next(v) : v \in {x} },
\* so that x is computed once and passed on as a value, as the C code does
Value(S) == CHOOSE v \in S : TRUE

\* x & (q->num_descs - 1), num_descs being a power of two
Mask(x) == x % num_descs

(***************************************************************************)
(* Kernel services the driver calls.                                       *)
(***************************************************************************)
\* dma_map_single / skb_frag_dma_map succeeding: the address is in .ret
dma_map(s) ==
  LET a == CHOOSE x \in Addrs \ s.mapped : \A y \in Addrs \ s.mapped : x <= y
  IN [s EXCEPT !.mapped = @ \cup {a}, !.ret = a]

\* dma_unmap_single / dma_unmap_page
dma_unmap(s, a) ==
  IF a \in s.mapped
  THEN [s EXCEPT !.mapped = @ \ {a}]
  ELSE [s EXCEPT !.bad_unmap = TRUE]

\* dev_kfree_skb / dev_consume_skb_any
kfree_skb(s, p) ==
  IF p \in s.held
  THEN [s EXCEPT !.held = @ \ {p}]
  ELSE [s EXCEPT !.double_free = TRUE]

\* NETDEV_TX_BUSY: the stack keeps the packet and will submit it again; had
\* the driver released it, the stack would now hold a freed packet
skb_requeue(s, p) ==
  IF p \in s.held
  THEN [s EXCEPT !.held = @ \ {p}]
  ELSE [s EXCEPT !.double_free = TRUE]

(***************************************************************************)
(* Ring primitives (ionic_dev.h / ionic_dev.c).                            *)
(***************************************************************************)
ionic_q_space_avail(s) ==
  num_descs - 1 - ((s.head_idx - s.tail_idx) % num_descs)

ionic_q_has_space(s, want) == ionic_q_space_avail(s) >= want

ionic_q_post(s, ring_dbell, cb_func, cb_arg) ==
  LET h == Mask(s.head_idx + 1)
  IN [s EXCEPT !.info[s.head_idx].cb = cb_func,
               !.info[s.head_idx].cb_arg = cb_arg,
               !.head_idx = h,
               !.dbell = IF ring_dbell THEN h ELSE @]

ionic_txq_post(s, ring_dbell, cb_func, cb_arg) ==
  ionic_q_post(s, ring_dbell, cb_func, cb_arg)

(***************************************************************************)
(* Doorbell timing.  The deadlines (ionic_dev.h, ionic_lif.h) are HZ / 100 *)
(* for the TX window and the smallest RX window, HZ * 4 for the largest RX *)
(* window and HZ for the NAPI timer; here one tick is the smallest window, *)
(* and the largest window is, as there, not a power of two times it.       *)
(***************************************************************************)
IONIC_TX_DOORBELL_DEADLINE == 1
IONIC_RX_MIN_DOORBELL_DEADLINE == 1
IONIC_RX_MAX_DOORBELL_DEADLINE == 3
IONIC_NAPI_DEADLINE == 2

\* ionic_dbell_ring(q->lif->kern_dbpage, q->hw_type, q->dbval | q->head_idx);
\* .rung tells the caller's caller that the register was written
ionic_dbell_ring(s) == [s EXCEPT !.dbell = s.head_idx, !.rung = TRUE]

\* mod_timer(&qcq->napi_deadline, jiffies + IONIC_NAPI_DEADLINE)
mod_timer(s) ==
  [s EXCEPT !.napi_deadline = s.jiffies + IONIC_NAPI_DEADLINE, !.armed = TRUE]

\* .ret is 1 for true, 0 for false
\* a poke that rings as soon as the deadline is reached
ionic_txq_poke_doorbell_at_deadline(s) ==
  IF s.tail_idx = s.head_idx THEN [s EXCEPT !.ret = 0]
  ELSE IF s.jiffies - s.dbell_jiffies >= s.dbell_deadline
       THEN [ionic_dbell_ring(s) EXCEPT !.dbell_jiffies = s.jiffies, !.ret = 1]
       ELSE [s EXCEPT !.ret = 1]

ionic_txq_poke_doorbell(s) ==
  IF s.tail_idx = s.head_idx THEN [s EXCEPT !.ret = 0]
  ELSE LET now == s.jiffies
           then == s.dbell_jiffies
           dif == now - then
       IN IF dif > s.dbell_deadline
          THEN [ionic_dbell_ring(s) EXCEPT !.dbell_jiffies = now, !.ret = 1]
          ELSE [s EXCEPT !.ret = 1]

\* a poke that doubles the window without looking at the cap
ionic_rxq_poke_doorbell_uncapped(s) ==
  IF s.tail_idx = s.head_idx THEN [s EXCEPT !.ret = 0]
  ELSE IF s.jiffies - s.dbell_jiffies > s.dbell_deadline
       THEN [ionic_dbell_ring(s) EXCEPT !.dbell_jiffies = s.jiffies,
                                        !.dbell_deadline = 2 * @,
                                        !.ret = 1]
       ELSE [s EXCEPT !.ret = 1]

ionic_rxq_poke_doorbell(s) ==
  IF s.tail_idx = s.head_idx THEN [s EXCEPT !.ret = 0]
  ELSE LET now == s.jiffies
           then == s.dbell_jiffies
           dif == now - then
       IN IF dif > s.dbell_deadline
          THEN [ionic_dbell_ring(s) EXCEPT
                  !.dbell_jiffies = now,
                  !.dbell_deadline =
                     IF 2 * s.dbell_deadline > IONIC_RX_MAX_DOORBELL_DEADLINE
                     THEN IONIC_RX_MAX_DOORBELL_DEADLINE
                     ELSE 2 * s.dbell_deadline,
                  !.ret = 1]
          ELSE [s EXCEPT !.ret = 1]

(***************************************************************************)
(* RX: buffers.  A slot keeps its pages across uses: a buffer whose page   *)
(* is still there is posted again without a new allocation.                *)
(***************************************************************************)
ETH_HLEN == 14
VLAN_HLEN == 4
\* the build splits pages and keeps a bias count (#if IONIC_PAGE_ORDER > 0)
IONIC_PAGE_ORDER == 1
IONIC_PAGE_SIZE == 4096
IONIC_PAGE_SPLIT_SZ == 2048
IONIC_PAGE_SPLIT_MAX_MTU == 2048
IONIC_RX_COPYBREAK_DEFAULT == 256

\* ALIGN(x, a)
Align(x, a) == DivRoundUp(x, a) * a

\* an allocation that keeps the page when its mapping fails
ionic_rx_page_alloc_leaking(s, slot, b, fail) ==
  IF fail = "alloc"
  THEN [s EXCEPT !.rx_stats.alloc_err = @ + 1, !.ret = -12]
  ELSE
    LET pg == CHOOSE x \in Addrs \ s.pages :
                \A y \in Addrs \ s.pages : x <= y
    IN IF fail = "map"
       THEN [s EXCEPT !.pages = @ \cup {pg}, !.dma_map_err = @ + 1,
                      !.ret = -5]
       ELSE [dma_map(s) EXCEPT
               !.pages = @ \cup {pg},
               !.info[slot].bufs[b] =
                  [page |-> pg, page_offset |-> 0,
                   dma_addr |-> dma_map(s).ret, pagecnt_bias |-> 0],
               !.ret = 0]

\* fail is the outcome the environment chose: "none", "alloc" (alloc_pages
\* returns NULL) or "map" (dma_map_page fails, the page is freed again)
ionic_rx_page_alloc(s, slot, b, fail) ==
  IF fail = "alloc"
  THEN [s EXCEPT !.rx_stats.alloc_err = @ + 1, !.ret = -12]     \* -ENOMEM
  ELSE IF fail = "map"
  THEN [s EXCEPT !.dma_map_err = @ + 1, !.ret = -5]             \* -EIO
  ELSE
    LET pg == CHOOSE x \in Addrs \ s.pages :
                \A y \in Addrs \ s.pages : x <= y
        m == dma_map(s)
    IN [m EXCEPT !.pages = @ \cup {pg},
                 !.page_ref.count[pg] = 1,            \* alloc_pages
                 !.info[slot].bufs[b] =
                    [page |-> pg, page_offset |-> 0, dma_addr |-> m.ret,
                     pagecnt_bias |-> 0],
                 !.ret = 0]

\* the driver lets go of page pg: what its reference count holds beyond
\* the fragments of delivered packets is left behind (below zero: a
\* reference was put that nobody held)
page_let_go(s, pg) ==
  [s EXCEPT !.pages = @ \ {pg},
            !.page_ref.left = @ + s.page_ref.count[pg] - s.page_ref.frags[pg],
            !.page_ref.count[pg] = 0,
            !.page_ref.frags[pg] = 0]

\* __free_pages of a page of the driver's: puts one reference
free_page(s, pg) ==
  IF pg \in s.pages
  THEN page_let_go([s EXCEPT !.page_ref.count[pg] = @ - 1], pg)
  ELSE [s EXCEPT !.double_free = TRUE]

\* page_ref_sub(page, nr)
page_ref_sub(s, pg, nr) == [s EXCEPT !.page_ref.count[pg] = @ - nr]

ionic_rx_page_free(s, slot, b) ==
  LET buf == s.info[slot].bufs[b]
  IN IF buf.page = 0 THEN s
     ELSE LET u == dma_unmap(s, buf.dma_addr)
              r == IF IONIC_PAGE_ORDER > 0 /\ buf.pagecnt_bias # 0
                   THEN page_ref_sub(u, buf.page, buf.pagecnt_bias)
                   ELSE u
          IN [free_page(r, buf.page) EXCEPT !.info[slot].bufs[b].page = 0]

\* a recycle that does not look at the MTU
ionic_rx_buf_recycle_any_mtu(s, slot, b, used, reusable) ==
  IF ~reusable THEN [s EXCEPT !.ret = 0]
  ELSE
    LET a == [s EXCEPT !.info[slot].bufs[b].page_offset =
                          @ + Align(used, IONIC_PAGE_SPLIT_SZ)]
    IN IF a.info[slot].bufs[b].page_offset >= IONIC_PAGE_SIZE
       THEN [a EXCEPT !.ret = 0]
       ELSE [a EXCEPT !.info[slot].bufs[b].pagecnt_bias = @ - 1, !.ret = 1]

\* reusable: dev_page_is_reusable(page).  .ret = 1 when the buffer is kept
\* (the driver takes another reference of the page for itself)
ionic_rx_buf_recycle(s, slot, b, used, reusable) ==
  IF ~reusable THEN [s EXCEPT !.ret = 0]
  ELSE IF s.mtu > IONIC_PAGE_SPLIT_MAX_MTU THEN [s EXCEPT !.ret = 0]
  ELSE
    LET a == [s EXCEPT !.info[slot].bufs[b].page_offset =
                          @ + Align(used, IONIC_PAGE_SPLIT_SZ)]
    IN IF a.info[slot].bufs[b].page_offset >= IONIC_PAGE_SIZE
       THEN [a EXCEPT !.ret = 0]
       ELSE IF IONIC_PAGE_ORDER > 0
       THEN [a EXCEPT !.info[slot].bufs[b].pagecnt_bias = @ - 1, !.ret = 1]
       ELSE [a EXCEPT !.page_ref.count[s.info[slot].bufs[b].page] = @ + 1,
                      !.ret = 1]                               \* get_page

(***************************************************************************)
(* RX: building the packet of a completion.  env carries skb_fail (the     *)
(* sk_buff allocation fails) and reusable.  .ret = 1 when a packet was     *)
(* built, 0 for NULL.  The packet under construction is .skb: the pieces   *)
(* of page memory it holds (page, offset, length), each either copied into *)
(* the packet's own memory or attached as a fragment.                      *)
(***************************************************************************)
\* the do-while of ionic_rx_frags: i buffers to go, from bufs[b]
RECURSIVE rx_frags_loop(_, _, _, _, _, _)
rx_frags_loop(s, slot, b, i, len, env) ==
  LET buf == s.info[slot].bufs[b]
  IN IF buf.page = 0 THEN [s EXCEPT !.ret = 0]
     ELSE
       LET frag_len == Min(len, IONIC_PAGE_SIZE - buf.page_offset)
           \* skb_add_rx_frag
           \* skb_add_rx_frag: the fragment takes no reference of its own
           f == [s EXCEPT !.skb = Append(@, [page |-> buf.page,
                                             off |-> buf.page_offset,
                                             len |-> frag_len,
                                             copied |-> FALSE,
                                             reusable |-> env.reusable]),
                          !.page_ref.frags[buf.page] = @ + 1]
           r == ionic_rx_buf_recycle(f, slot, b, frag_len, env.reusable)
           \* not recycled: the page now belongs to the packet alone
           u == IF r.ret = 1 THEN r
                ELSE [page_let_go(dma_unmap(r, buf.dma_addr), buf.page)
                        EXCEPT !.info[slot].bufs[b].page = 0]
       IN IF i - 1 > 0
          THEN rx_frags_loop(u, slot, b + 1, i - 1, len - frag_len, env)
          ELSE [u EXCEPT !.ret = 1]

ionic_rx_frags(s, slot, comp, env) ==
  IF env.skb_fail THEN [s EXCEPT !.rx_stats.alloc_err = @ + 1, !.ret = 0]
  ELSE rx_frags_loop(s, slot, 0, comp.num_sg_elems + 1, comp.len, env)

\* a copy path that hands the page to the packet as the fragment path does
ionic_rx_copybreak_giving_page(s, slot, comp, env) ==
  LET buf == s.info[slot].bufs[0]
  IN [dma_unmap(s, buf.dma_addr)
        EXCEPT !.pages = @ \ {buf.page},
               !.info[slot].bufs[0].page = 0,
               !.skb = <<[page |-> buf.page, off |-> buf.page_offset,
                          len |-> comp.len, copied |-> TRUE,
                          reusable |-> FALSE]>>,
               !.ret = 1]

ionic_rx_copybreak(s, slot, comp, env) ==
  IF env.skb_fail THEN [s EXCEPT !.rx_stats.alloc_err = @ + 1, !.ret = 0]
  ELSE IF s.info[slot].bufs[0].page = 0 THEN [s EXCEPT !.ret = 0]
  ELSE
    LET buf == s.info[slot].bufs[0]
    IN \* skb_copy_to_linear_data
       [s EXCEPT !.skb = <<[page |-> buf.page, off |-> buf.page_offset,
                            len |-> comp.len, copied |-> TRUE,
                            reusable |-> FALSE]>>,
                 !.ret = 1]

\* the bad-checksum bits of comp->csum_flags: IONIC_RXQ_COMP_CSUM_F_TCP_BAD,
\* _UDP_BAD and _IP_BAD
CsumBadFlags == {"TCP_BAD", "UDP_BAD", "IP_BAD"}

\* a cleanup whose drop path gives the slot's first page back
ionic_rx_clean_freeing(s, slot, comp, env) ==
  IF comp.status # 0 \/ comp.len > s.mtu + ETH_HLEN + VLAN_HLEN
  THEN [ionic_rx_page_free(s, slot, 0) EXCEPT !.rx_stats.dropped = @ + 1]
  ELSE [s EXCEPT !.rx_stats.pkts = @ + 1,
                 !.rx_stats.bytes = @ + comp.len]

ionic_rx_clean(s, slot, comp, env) ==
  IF comp.status # 0 THEN [s EXCEPT !.rx_stats.dropped = @ + 1]
  ELSE IF comp.len > s.mtu + ETH_HLEN + VLAN_HLEN
  THEN [s EXCEPT !.rx_stats.dropped = @ + 1]
  ELSE
    LET c == [s EXCEPT !.rx_stats.pkts = @ + 1,
                       !.rx_stats.bytes = @ + comp.len]
        b == IF comp.len <= IONIC_RX_COPYBREAK_DEFAULT
             THEN ionic_rx_copybreak(c, slot, comp, env)
             ELSE ionic_rx_frags(c, slot, comp, env)
    IN IF b.ret = 0 THEN [b EXCEPT !.rx_stats.dropped = @ + 1]
       ELSE [b EXCEPT !.rx_stats.csum_error =
                         IF comp.csum_flags \cap CsumBadFlags # {}
                         THEN @ + 1 ELSE @,
                      !.delivered.pkts = @ + 1,       \* napi_gro_receive
                      !.delivered.bytes = @ + comp.len,
                      !.delivered.last = b.skb]

\* a service that does not compare comp_index with tail_idx
ionic_rx_service_any_index(s, comp, env) ==
  IF ~comp.color THEN [s EXCEPT !.ret = 0]
  ELSE IF s.tail_idx = s.head_idx THEN [s EXCEPT !.ret = 0]
  ELSE
    LET index == s.tail_idx
        a == [s EXCEPT !.tail_idx = Mask(s.tail_idx + 1)]
        c == ionic_rx_clean(a, index, comp, env)
    IN [c EXCEPT !.info[index].cb = "NULL", !.info[index].cb_arg = 0,
                 !.ret = 1]

\* .ret = 1 when the completion was consumed
ionic_rx_service(s, comp, env) ==
  IF ~comp.color THEN [s EXCEPT !.ret = 0]
  ELSE IF s.tail_idx = s.head_idx THEN [s EXCEPT !.ret = 0]
  ELSE IF s.tail_idx # comp.comp_index THEN [s EXCEPT !.ret = 0]
  ELSE
    LET index == s.tail_idx
        a == [s EXCEPT !.tail_idx = Mask(s.tail_idx + 1)]
        c == ionic_rx_clean(a, index, comp, env)
    IN [c EXCEPT !.info[index].cb = "NULL", !.info[index].cb_arg = 0,
                 !.ret = 1]

(***************************************************************************)
(* RX: filling the ring.  A pass is the record f: st the program state, k  *)
(* the page allocations made so far in the pass, ok whether none failed,   *)
(* remain_len, nfrags and lens the locals of the slot being filled.  env   *)
(* names the allocation of the pass that fails (fail_at, 0 for none) and   *)
(* how (fail_kind).                                                        *)
(***************************************************************************)
\* nsplits = IONIC_PAGE_SIZE / ALIGN(len, IONIC_PAGE_SPLIT_SZ)
rx_fill_nsplits(s) ==
  IONIC_PAGE_SIZE \div Align(s.mtu + ETH_HLEN + VLAN_HLEN, IONIC_PAGE_SPLIT_SZ)

\* a page for buffer b of the slot, with the bias count a split page starts
\* with (#if IONIC_PAGE_ORDER > 0)
rx_fill_alloc(s, slot, b, fail) ==
  Value({ IF n.ret = 0 /\ IONIC_PAGE_ORDER > 0
          THEN [n EXCEPT !.info[slot].bufs[b].pagecnt_bias =
                            rx_fill_nsplits(n) - 1,
                         \* if (pagecnt_bias) page_ref_add(page, bias)
                         !.page_ref.count[n.info[slot].bufs[b].page] =
                            @ + rx_fill_nsplits(n) - 1]
          ELSE n
          : n \in {ionic_rx_page_alloc(s, slot, b, fail)} })

\* a buffer that takes half a page at most
rx_fill_buf_half_page(f, b, env) ==
  LET slot == f.st.head_idx
      need == f.st.info[slot].bufs[b].page = 0
      k == IF need THEN f.k + 1 ELSE f.k
      fail == IF env.fail_at = k THEN env.fail_kind ELSE "none"
  IN Value({ IF a.ret # 0 THEN [f EXCEPT !.st = a, !.k = k, !.ok = FALSE]
             ELSE
               LET frag_len == Min(f.remain_len, IONIC_PAGE_SPLIT_SZ)
               IN [f EXCEPT !.st = a, !.k = k,
                            !.remain_len = @ - frag_len,
                            !.nfrags = @ + 1,
                            !.lens = Append(@, frag_len)]
             : a \in { IF need THEN rx_fill_alloc(f.st, slot, b, fail)
                       ELSE [f.st EXCEPT !.ret = 0] } })

\* one buffer of the slot at head_idx: allocate if the slot has no page
\* there, then take what fits between page_offset and the end of the page
rx_fill_buf(f, b, env) ==
  LET slot == f.st.head_idx
      need == f.st.info[slot].bufs[b].page = 0
      k == IF need THEN f.k + 1 ELSE f.k
      fail == IF env.fail_at = k THEN env.fail_kind ELSE "none"
  IN Value({ IF a.ret # 0 THEN [f EXCEPT !.st = a, !.k = k, !.ok = FALSE]
             ELSE
               LET frag_len ==
                     Min(f.remain_len,
                         IONIC_PAGE_SIZE - a.info[slot].bufs[b].page_offset)
               IN [f EXCEPT !.st = a, !.k = k,
                            !.remain_len = @ - frag_len,
                            !.nfrags = @ + 1,
                            !.lens = Append(@, frag_len)]
             : a \in { IF need THEN rx_fill_alloc(f.st, slot, b, fail)
                       ELSE [f.st EXCEPT !.ret = 0] } })

\* for (j = 0; remain_len > 0 && j < q->max_sg_elems; j++)
RECURSIVE rx_fill_sg(_, _, _)
rx_fill_sg(f, j, env) ==
  IF ~(f.remain_len > 0 /\ j < max_sg_elems) THEN f
  ELSE Value({ IF g.ok THEN rx_fill_sg(g, j + 1, env) ELSE g
               : g \in {rx_fill_buf(f, 1 + j, env)} })

\* the body of the loop for the slot at head_idx: its buffers, then opcode,
\* nbufs and the post without doorbell
rx_fill_slot(f, env) ==
  LET slot == f.st.head_idx
      f0 == [f EXCEPT !.remain_len = f.st.mtu + ETH_HLEN + VLAN_HLEN,
                      !.nfrags = 0, !.lens = <<>>]
  IN Value({ IF ~g.ok THEN g
             ELSE [g EXCEPT !.st =
                     ionic_q_post(
                       [g.st EXCEPT
                          !.info[slot].desc =
                             [op |-> IF g.nfrags > 1 THEN "RXQ_SG"
                                     ELSE "RXQ_SIMPLE",
                              lens |-> g.lens],
                          !.info[slot].nbufs = g.nfrags],
                       FALSE, "ionic_rx_clean", 0)]
             : g \in { IF m.ok THEN rx_fill_sg(m, 0, env) ELSE m
                       : m \in {rx_fill_buf(f0, 0, env)} } })

\* for (i = ionic_q_space_avail(q); i; i--)
RECURSIVE rx_fill_loop(_, _, _)
rx_fill_loop(f, i, env) ==
  IF i = 0 THEN f
  ELSE Value({ IF g.ok THEN rx_fill_loop(g, i - 1, env) ELSE g
               : g \in {rx_fill_slot(f, env)} })

\* a pass that stops on a failed allocation returns before the doorbell
ionic_rx_fill(s, env) ==
  LET f == rx_fill_loop([st |-> s, k |-> 0, ok |-> TRUE, remain_len |-> 0,
                         nfrags |-> 0, lens |-> <<>>],
                        ionic_q_space_avail(s), env)
  IN IF f.ok
     THEN mod_timer([ionic_dbell_ring(f.st) EXCEPT
                       !.dbell_deadline = IONIC_RX_MIN_DOORBELL_DEADLINE,
                       !.dbell_jiffies = f.st.jiffies])
     ELSE f.st

\* a teardown of a slot that frees the first buffer only
rx_empty_bufs_first(s, slot, j) == ionic_rx_page_free(s, slot, 0)

\* for (j = 0; j < IONIC_RX_MAX_SG_ELEMS + 1; j++) over one slot
RECURSIVE rx_empty_bufs(_, _, _)
rx_empty_bufs(s, slot, j) ==
  IF j >= NumBufs THEN s
  ELSE IF s.info[slot].bufs[j].page = 0 THEN rx_empty_bufs(s, slot, j + 1)
  ELSE rx_empty_bufs(ionic_rx_page_free(s, slot, j), slot, j + 1)

\* for (i = 0; i < q->num_descs; i++) over the info array
RECURSIVE rx_empty_slots(_, _)
rx_empty_slots(s, i) ==
  IF i \notin DOMAIN s.info THEN s
  ELSE rx_empty_slots([rx_empty_bufs(s, i, 0)
                         EXCEPT !.info[i].nbufs = 0,
                                !.info[i].cb = "NULL",
                                !.info[i].cb_arg = 0],
                      i + 1)

ionic_rx_empty(s) ==
  [rx_empty_slots(s, 0) EXCEPT !.head_idx = 0, !.tail_idx = 0]

(***************************************************************************)
(* TX: DMA mapping of a packet into the slot at head_idx.                  *)
(* The environment decides which mapping fails: fail = 0 is the linear     *)
(* part, fail = k > 0 is fragment k - 1, any other value is no failure.    *)
(***************************************************************************)
nr_frags(skb) == Len(skb.buflens) - 1

\* returns the address in .ret; 0 when dma_map_single failed
ionic_tx_map_single(s, fail) ==
  IF fail
  THEN [s EXCEPT !.dma_map_err = @ + 1, !.ret = 0]
  ELSE dma_map(s)

\* returns the address in .ret; the error cookie when the mapping failed
ionic_tx_map_frag(s, fail) ==
  IF fail
  THEN [s EXCEPT !.dma_map_err = @ + 1, !.ret = DMA_MAPPING_ERROR]
  ELSE dma_map(s)

\* the dma_fail label: buf_info points at bufs[bi]
RECURSIVE tx_map_unwind(_, _, _, _)
tx_map_unwind(s, slot, frag_idx, bi) ==
  IF frag_idx > 0
  THEN tx_map_unwind(dma_unmap(s, s.info[slot].bufs[bi - 1].dma_addr), slot,
                     frag_idx - 1, bi - 1)
  ELSE [dma_unmap(s, s.info[slot].bufs[bi].dma_addr)
          EXCEPT !.ret = -5]                                      \* -EIO

RECURSIVE tx_map_frags(_, _, _, _)
tx_map_frags(s, slot, frag_idx, fail) ==
  IF frag_idx >= nr_frags(s.xskb)
  THEN [s EXCEPT !.info[slot].nbufs = 1 + nr_frags(s.xskb), !.ret = 0]
  ELSE
    LET m == ionic_tx_map_frag(s, fail = 1 + frag_idx)
    IN IF dma_mapping_error(m.ret)
       THEN tx_map_unwind([m EXCEPT !.dma_map_err = @ + 1], slot, frag_idx,
                          1 + frag_idx)
       ELSE tx_map_frags([m EXCEPT !.info[slot].bufs[1 + frag_idx].dma_addr =
                              m.ret],
                         slot, frag_idx + 1, fail)

ionic_tx_map_skb(s, slot, fail) ==
  LET m == ionic_tx_map_single(s, fail = 0)
  IN IF dma_mapping_error(m.ret)
     THEN [m EXCEPT !.dma_map_err = @ + 1, !.ret = -5]          \* -EIO
     ELSE tx_map_frags([m EXCEPT !.info[slot].bufs[0].dma_addr = m.ret],
                       slot, 0, fail)

(***************************************************************************)
(* TX: completion-side cleanup.                                            *)
(***************************************************************************)
RECURSIVE tx_unmap_pages(_, _, _)
tx_unmap_pages(s, slot, i) ==
  IF i >= s.info[slot].nbufs THEN s
  ELSE tx_unmap_pages(dma_unmap(s, s.info[slot].bufs[i].dma_addr), slot, i + 1)

\* an unmap that forgets the fragments
ionic_tx_desc_unmap_head_only(s, slot) ==
  IF s.info[slot].nbufs = 0 THEN s
  ELSE [dma_unmap(s, s.info[slot].bufs[0].dma_addr)
          EXCEPT !.info[slot].nbufs = 0]

ionic_tx_desc_unmap_bufs(s, slot) ==
  IF s.info[slot].nbufs = 0 THEN s
  ELSE [tx_unmap_pages(dma_unmap(s, s.info[slot].bufs[0].dma_addr), slot, 1)
          EXCEPT !.info[slot].nbufs = 0]

\* a cleanup that releases the packet of whatever slot it is given
ionic_tx_clean_any_slot(s, slot, cb_arg) ==
  LET u == ionic_tx_desc_unmap_bufs(s, slot)
  IN kfree_skb(u, IF cb_arg = 0 THEN 1 ELSE cb_arg)

\* cq_info is irrelevant to the state kept here (it only feeds the
\* hardware-timestamp report of a HWSTAMP queue)
ionic_tx_clean(s, slot, cb_arg) ==
  LET u == ionic_tx_desc_unmap_bufs(s, slot)
  IN IF cb_arg = 0 THEN u
     ELSE
       LET w == IF s.qtype = "hwstamp" THEN u
                ELSE IF u.stopped
                     THEN [u EXCEPT !.stopped = FALSE, !.wake = @ + 1]
                     ELSE u
       IN kfree_skb(w, cb_arg)

\* One pass of the do-while body of ionic_tx_service / the while body of
\* ionic_tx_empty, in its two halves: take the slot at tail_idx and advance
\* tail_idx; then clean that slot and clear its callback.
tx_advance_tail(s) == [s EXCEPT !.tail_idx = Mask(s.tail_idx + 1)]

tx_clean_slot(s, index) ==
  LET c == ionic_tx_clean(s, index, s.info[index].cb_arg)
  IN [c EXCEPT !.info[index].cb = "NULL", !.info[index].cb_arg = 0]

tx_clean_tail(s) == tx_clean_slot(tx_advance_tail(s), s.tail_idx)

\* a drain that stops after the slot at tail_idx
tx_service_loop_single(s, comp_index) == tx_clean_tail(s)

RECURSIVE tx_service_loop(_, _)
tx_service_loop(s, comp_index) ==
  LET index == s.tail_idx
      c == tx_clean_tail(s)
  IN IF index # comp_index THEN tx_service_loop(c, comp_index) ELSE c

\* a service that takes the completion for the end of the ring's work and
\* pulls head_idx back to it
ionic_tx_service_rewinding(s, comp) ==
  IF ~comp.color THEN [s EXCEPT !.ret = 0]
  ELSE [tx_service_loop(s, comp.comp_index)
          EXCEPT !.head_idx = Mask(comp.comp_index + 1), !.ret = 1]

\* a service that sets tail_idx past the completed index without wrapping
ionic_tx_service_unwrapped(s, comp) ==
  IF ~comp.color THEN [s EXCEPT !.ret = 0]
  ELSE [tx_service_loop(s, comp.comp_index)
          EXCEPT !.tail_idx = comp.comp_index + 1, !.ret = 1]

\* comp = [color |-> the entry's color matches cq->done_color, comp_index]
ionic_tx_service(s, comp) ==
  IF ~comp.color THEN [s EXCEPT !.ret = 0]
  ELSE [tx_service_loop(s, comp.comp_index) EXCEPT !.ret = 1]

\* a teardown that cleans the slot at tail_idx and stops
ionic_tx_empty_one(s) ==
  IF s.head_idx # s.tail_idx THEN tx_clean_tail(s) ELSE s

RECURSIVE ionic_tx_empty(_)
ionic_tx_empty(s) ==
  IF s.head_idx # s.tail_idx THEN ionic_tx_empty(tx_clean_tail(s)) ELSE s

(***************************************************************************)
(* TX: the submission path.  env carries what the environment decides      *)
(* during one call: up (IONIC_LIF_F_UP), lin_fail (skb_linearize fails),   *)
(* map_fail (which DMA mapping fails), cow_fail (skb_cow_head fails) and   *)
(* more (netdev_xmit_more()).                                              *)
(***************************************************************************)
\* a post that flags every descriptor but the first as the end
ionic_tx_tso_post_all_end(s, d) ==
  LET w == [s EXCEPT !.info[s.head_idx].desc =
                        [op |-> "TSO", sot |-> d.sot, eot |-> ~d.sot,
                         bytes |-> d.bytes, nsge |-> d.nsge]]
  IN IF d.sot
     THEN ionic_txq_post(w, FALSE, "ionic_tx_clean", s.xskb.id)
     ELSE ionic_txq_post(w, d.eot, "NULL", 0)

ionic_tx_tso_post(s, d) ==
  LET w == [s EXCEPT !.info[s.head_idx].desc =
                        [op |-> "TSO", sot |-> d.sot, eot |-> d.eot,
                         bytes |-> d.bytes, nsge |-> d.nsge]]
  IN IF d.sot
     THEN ionic_txq_post(w, FALSE, "ionic_tx_clean", s.xskb.id)
     ELSE ionic_txq_post(w, d.eot, "NULL", 0)

\* the posting loop of ionic_tx_tso over the descriptors of the packet
RECURSIVE tx_tso_post_all(_, _)
tx_tso_post_all(s, descs) ==
  IF descs = <<>> THEN s
  ELSE
    LET p == ionic_tx_tso_post(s, Head(descs))
        \* Buffer information is stored with the first tso descriptor
        n == [p EXCEPT !.info[p.head_idx].nbufs = 0]
    IN tx_tso_post_all(n, Tail(descs))

ionic_tx_tso(s, env) ==
  LET slot == s.head_idx
      m == ionic_tx_map_skb(s, slot, env.map_fail)
  IN IF m.ret # 0 THEN [m EXCEPT !.ret = -5]                     \* -EIO
     ELSE IF env.cow_fail
          THEN [ionic_tx_desc_unmap_bufs(m, slot) EXCEPT !.ret = -12]
          ELSE [tx_tso_post_all(m, ionic_tx_tso_descs(s.xskb.len,
                                   s.xskb.hdrlen, s.xskb.mss, s.xskb.buflens))
                  EXCEPT !.ret = 0]

ionic_tx(s, env) ==
  LET slot == s.head_idx
      m == ionic_tx_map_skb(s, slot, env.map_fail)
  IN IF m.ret # 0 THEN [m EXCEPT !.ret = -5]                     \* -EIO
     ELSE
       LET w == [m EXCEPT !.info[slot].desc =
                             [op |-> "CSUM", sot |-> FALSE, eot |-> FALSE,
                              bytes |-> s.xskb.len,
                              nsge |-> nr_frags(s.xskb)]]
       IN [ionic_txq_post(w, ~env.more, "ionic_tx_clean", s.xskb.id)
             EXCEPT !.ret = 0]

\* a demand computed without looking at the fragment count
ionic_tx_descs_needed_as_is(s, env) ==
  [s EXCEPT !.ret = IF s.xskb.gso THEN s.xskb.gso_segs ELSE 1]

\* may linearize s.xskb; .ret is the descriptor demand or a negative errno
ionic_tx_descs_needed(s, env) ==
  LET ndescs == IF s.xskb.gso THEN s.xskb.gso_segs ELSE 1
  IN IF nr_frags(s.xskb) <= max_sg_elems THEN [s EXCEPT !.ret = ndescs]
     ELSE IF env.lin_fail THEN [s EXCEPT !.ret = -12]            \* -ENOMEM
     ELSE [s EXCEPT !.xskb.buflens = <<s.xskb.len>>,
                    !.linearize = @ + 1, !.ret = ndescs]

\* a stop that is counted as a drop too
maybe_stop_mark_dropping(s) ==
  [s EXCEPT !.stopped = TRUE, !.stop = @ + 1, !.drop = @ + 1]

\* a re-check that finds space but leaves the mark
maybe_stop_recheck_keeping(s, ndescs) ==
  IF ionic_q_has_space(s, ndescs)
  THEN [s EXCEPT !.ret = 0]
  ELSE [s EXCEPT !.ret = 1]

\* ionic_maybe_stop_tx up to the smp_rmb(), and from it
maybe_stop_mark(s) == [s EXCEPT !.stopped = TRUE, !.stop = @ + 1]

maybe_stop_recheck(s, ndescs) ==
  IF ionic_q_has_space(s, ndescs)
  THEN [s EXCEPT !.stopped = FALSE, !.ret = 0]
  ELSE [s EXCEPT !.ret = 1]

\* the demand checked after a successful send: ionic_maybe_stop_tx(q, 4)
StopThreshold == 4

xmit_ndescs(s) == IF s.xskb.gso THEN s.xskb.gso_segs ELSE 1

\* ionic_start_xmit returns r; the stack moves on to its next packet unless
\* it was told busy
xmit_return(s, r) ==
  LET b == IF r = "BUSY" THEN skb_requeue(s, s.xskb.id) ELSE s
  IN [b EXCEPT !.xmit_ret = r, !.x_pc = "idle", !.xskb = NoSkb,
               !.next_skb = IF r = "OK" /\ s.xskb.id # 0 THEN @ + 1 ELSE @]

\* a drop that counts a stop on a queue of either kind
xmit_err_out_drop_counting_stop(s) ==
  xmit_return(kfree_skb([s EXCEPT !.stop = @ + 1, !.drop = @ + 1],
                        s.xskb.id), "OK")

\* err_out_drop of ionic_start_xmit and of ionic_start_hwstamp_xmit
xmit_err_out_drop(s) ==
  LET c == IF s.qtype = "hwstamp"
           THEN [s EXCEPT !.drop = @ + 1]
           ELSE [s EXCEPT !.stop = @ + 1, !.drop = @ + 1]
  IN xmit_return(kfree_skb(c, s.xskb.id), "OK")

\* an entry that treats a packet for a device that is down as a drop
xmit_begin_counting_down(s0, skb, env) ==
  LET s == [s0 EXCEPT !.xskb = skb, !.held = @ \cup {skb.id}]
  IN IF ~env.up THEN xmit_err_out_drop(s)
     ELSE
       LET n == ionic_tx_descs_needed(s, env)
       IN IF n.ret < 0 THEN xmit_err_out_drop(n)
          ELSE IF ionic_q_has_space(n, n.ret) THEN [n EXCEPT !.x_pc = "send"]
          ELSE IF s.qtype = "hwstamp" THEN xmit_err_out_drop(n)
          ELSE [n EXCEPT !.x_pc = "stop"]

\* an entry that sends without looking at the ring space
xmit_begin_unchecked(s0, skb, env) ==
  LET s == [s0 EXCEPT !.xskb = skb, !.held = @ \cup {skb.id}]
  IN IF ~env.up THEN xmit_return(kfree_skb(s, skb.id), "OK")
     ELSE
       LET n == ionic_tx_descs_needed(s, env)
       IN IF n.ret < 0 THEN xmit_err_out_drop(n)
          ELSE [n EXCEPT !.x_pc = "send"]

\* entry of ionic_start_xmit up to the first read of the ring space
xmit_begin(s0, skb, env) ==
  LET s == [s0 EXCEPT !.xskb = skb, !.held = @ \cup {skb.id}]
  IN IF ~env.up THEN xmit_return(kfree_skb(s, skb.id), "OK")
     ELSE
       LET n == ionic_tx_descs_needed(s, env)
       IN IF n.ret < 0 THEN xmit_err_out_drop(n)
          ELSE IF ionic_q_has_space(n, n.ret) THEN [n EXCEPT !.x_pc = "send"]
          ELSE IF s.qtype = "hwstamp" THEN xmit_err_out_drop(n)
          ELSE [n EXCEPT !.x_pc = "stop"]

xmit_send(s, env) ==
  LET t == IF s.xskb.gso THEN ionic_tx_tso(s, env) ELSE ionic_tx(s, env)
  IN IF t.ret # 0 THEN xmit_err_out_drop(t)
     ELSE IF s.qtype = "hwstamp" THEN xmit_return(t, "OK")
     ELSE [t EXCEPT !.x_pc = "check4", !.xskb = NoSkb,
                    !.next_skb = @ + 1]

\* one step of ionic_start_xmit from the place x_pc
xmit_step(s, env) ==
  CASE s.x_pc = "stop" -> [maybe_stop_mark(s) EXCEPT !.x_pc = "recheck"]
    [] s.x_pc = "recheck" ->
         LET r == maybe_stop_recheck(s, xmit_ndescs(s))
         IN IF r.ret # 0 THEN xmit_return(r, "BUSY")
            ELSE [r EXCEPT !.x_pc = "send"]
    [] s.x_pc = "send" -> xmit_send(s, env)
    [] s.x_pc = "check4" ->
         IF ionic_q_has_space(s, StopThreshold)
         THEN xmit_return(s, "OK")
         ELSE [s EXCEPT !.x_pc = "stop4"]
    [] s.x_pc = "stop4" -> [maybe_stop_mark(s) EXCEPT !.x_pc = "recheck4"]
    [] s.x_pc = "recheck4" ->
         xmit_return(maybe_stop_recheck(s, StopThreshold), "OK")

RECURSIVE xmit_run(_, _)
xmit_run(s, env) ==
  IF s.x_pc = "idle" THEN s ELSE xmit_run(xmit_step(s, env), env)

\* a whole call, with nothing running in between
ionic_start_xmit(s, skb, env) == xmit_run(xmit_begin(s, skb, env), env)

(***************************************************************************)
(* The NAPI poll routines.  s.cq is the completion queue from its tail on. *)
(* ionic_cq_service (ionic_dev.c) hands the entry at the tail to the       *)
(* service routine until that refuses one or work_to_do entries are taken; *)
(* .ret is the number taken.                                               *)
(***************************************************************************)
TxCompOf(c) ==
  IF c = <<>> THEN [color |-> FALSE, comp_index |-> 0]
  ELSE [color |-> TRUE, comp_index |-> Head(c)]

RxCompOf(c, tail) ==
  IF c = <<>>
  THEN [color |-> FALSE, comp_index |-> tail, status |-> 0, len |-> 0,
        num_sg_elems |-> 0, csum_flags |-> {}]
  ELSE Head(c)

RECURSIVE tx_cq_service(_, _, _)
tx_cq_service(s, work_to_do, work_done) ==
  IF work_to_do = 0 THEN [s EXCEPT !.ret = 0]
  ELSE Value({ IF r.ret = 0 THEN [r EXCEPT !.ret = work_done]
               ELSE IF work_done + 1 >= work_to_do
                    THEN [r EXCEPT !.cq = Tail(@), !.ret = work_done + 1]
                    ELSE tx_cq_service([r EXCEPT !.cq = Tail(@)],
                                       work_to_do, work_done + 1)
               : r \in {ionic_tx_service(s, TxCompOf(s.cq))} })

RECURSIVE rx_cq_service(_, _, _, _)
rx_cq_service(s, work_to_do, work_done, env) ==
  IF work_to_do = 0 THEN [s EXCEPT !.ret = 0]
  ELSE Value({ IF r.ret = 0 THEN [r EXCEPT !.ret = work_done]
               ELSE IF work_done + 1 >= work_to_do
                    THEN [r EXCEPT !.cq = Tail(@), !.ret = work_done + 1]
                    ELSE rx_cq_service([r EXCEPT !.cq = Tail(@)],
                                       work_to_do, work_done + 1, env)
               : r \in {ionic_rx_service(s, RxCompOf(s.cq, s.tail_idx),
                                         env)} })

IONIC_RX_FILL_THRESHOLD == 16
IONIC_RX_FILL_DIV == 8
rx_fill_threshold == Min(IONIC_RX_FILL_THRESHOLD, num_descs \div IONIC_RX_FILL_DIV)

\* if (!work_done && ionic_txq_poke_doorbell(&qcq->q)) mod_timer(...)
tx_napi_poke(s, work_done) ==
  IF work_done # 0 THEN s
  ELSE Value({ IF p.ret = 1 THEN mod_timer(p) ELSE p
               : p \in {ionic_txq_poke_doorbell(s)} })

rx_napi_poke(s, work_done) ==
  IF work_done # 0 THEN s
  ELSE Value({ IF p.ret = 1 THEN mod_timer(p) ELSE p
               : p \in {ionic_rxq_poke_doorbell(s)} })

\* if (work_done && ionic_q_space_avail(q) >= rx_fill_threshold) ionic_rx_fill(q)
rx_napi_fill(s, work_done, fenv) ==
  IF work_done # 0 /\ ionic_q_space_avail(s) >= rx_fill_threshold
  THEN ionic_rx_fill(s, fenv)
  ELSE s

ionic_tx_napi(s, budget) ==
  Value({ [tx_napi_poke(a, a.ret) EXCEPT !.ret = a.ret]
          : a \in {tx_cq_service(s, budget, 0)} })

\* env is what the packets' allocations do, fenv what the fill's do
ionic_rx_napi(s, budget, env, fenv) ==
  Value({ [rx_napi_poke(rx_napi_fill(a, a.ret, fenv), a.ret)
             EXCEPT !.ret = a.ret]
          : a \in {rx_cq_service(s, budget, 0, env)} })

\* ionic_txrx_napi polls a TX queue and an RX queue.  s is one of the two;
\* of the other one, other.work_done is what its service took and
\* other.poke what its poke returns.
txrx_resched(s, work_done, other) ==
  IF (work_done = 0 /\ s.ret = 1) \/ (other.work_done = 0 /\ other.poke)
  THEN mod_timer(s)
  ELSE s

ionic_txrx_napi(s, budget, tx_budget, env, fenv, other) ==
  IF s.qtype = "rx"
  THEN Value({ [txrx_resched(IF a.ret = 0
                             THEN ionic_rxq_poke_doorbell(a)
                             ELSE rx_napi_fill(a, a.ret, fenv),
                             a.ret, other)
                  EXCEPT !.ret = a.ret]
               : a \in {rx_cq_service(s, budget, 0, env)} })
  ELSE Value({ [txrx_resched(IF a.ret = 0
                             THEN ionic_txq_poke_doorbell(a)
                             ELSE a,
                             a.ret, other)
                  EXCEPT !.ret = other.work_done]
               : a \in {tx_cq_service(s, tx_budget, 0)} })

(***************************************************************************)
(* What the environment can hand to the driver.                            *)
(***************************************************************************)
\* the kernel sets gso_segs to DIV_ROUND_UP(len - hdrlen, gso_size)
GsoSkb(id, l, h, m, b) ==
  [id |-> id, gso |-> TRUE, len |-> l, hdrlen |-> h, mss |-> m,
   gso_segs |-> DivRoundUp(l - h, m), buflens |-> b]

\* The ring sees of a segmented packet only how many descriptors and how
\* many buffers it has, so the ring is fed one packet per such pair: l bytes
\* with a one-byte header and an MSS of one byte make l - 1 descriptors; n
\* one-byte fragments, the linear part holding the rest.  (The segmentation
\* itself is explored over all lengths, MSS and layouts under SpecTso.)
GsoSkbs(id) ==
  UNION { { GsoSkb(id, l, 1, 1,
                   [i \in 1 .. (n + 1) |-> IF i = 1 THEN l - n ELSE 1])
            : n \in { k \in 0 .. (max_sg_elems + 1) : l - k >= 1 } }
          : l \in 2 .. MaxLen }

\* a packet that is not segmented: only its fragment count matters
PlainSkbs(id) ==
  { [id |-> id, gso |-> FALSE, len |-> n + 1, hdrlen |-> 0, mss |-> 0,
     gso_segs |-> 0, buflens |-> [i \in 1 .. (n + 1) |-> 1]]
    : n \in 0 .. (max_sg_elems + 1) }

Skbs(id) == PlainSkbs(id) \cup GsoSkbs(id)

\* the environment's decisions that the call on skb can observe
Envs(skb) ==
  {[up |-> FALSE, lin_fail |-> FALSE, map_fail |-> -1, cow_fail |-> FALSE,
    more |-> FALSE]}
  \cup
  { e \in [up : {TRUE}, lin_fail : BOOLEAN, map_fail : -1 .. max_sg_elems,
           cow_fail : BOOLEAN, more : BOOLEAN] :
      /\ e.lin_fail => nr_frags(skb) > max_sg_elems /\ e.map_fail = -1
                        /\ ~e.cow_fail /\ ~e.more
      /\ e.map_fail <= (IF nr_frags(skb) > max_sg_elems THEN 0
                        ELSE nr_frags(skb))
      /\ e.cow_fail => skb.gso /\ e.map_fail = -1
      /\ e.more => ~skb.gso /\ e.map_fail = -1 }

TxTypes == {"tx", "hwstamp"}

\* the MTUs of the run: the default, and a jumbo one above the page-split
\* limit that needs a second buffer
Mtus == {1500, 8000}

(***************************************************************************)
(* Initial state: the queue as ionic_qcq_alloc leaves it (zeroed info,     *)
(* both indices 0), nothing mapped, no packet submitted.                   *)
(***************************************************************************)
InitWith(qtypes) ==
  /\ qtype \in qtypes
  /\ head_idx = 0
  /\ tail_idx = 0
  /\ info = [i \in Slots |-> EmptyInfo]
  /\ dbell = 0
  /\ stopped = FALSE
  /\ stop = 0
  /\ wake = 0
  /\ drop = 0
  /\ dma_map_err = 0
  /\ mapped = {}
  /\ bad_unmap = FALSE
  /\ held = {}
  /\ double_free = FALSE
  /\ xskb = NoSkb
  /\ xmit_ret = "NONE"
  /\ next_skb = 1
  /\ cq = <<>>
  /\ hw_idx = 0
  /\ x_pc = "idle"
  /\ s_pc = "idle"
  /\ s_index = 0
  /\ mtu \in (IF qtype = "rx" THEN Mtus ELSE {1500})
  /\ rx_stats = [dropped |-> 0, pkts |-> 0, bytes |-> 0, alloc_err |-> 0,
                 csum_error |-> 0]
  /\ pages = {}
  /\ page_ref = NoPageRef
  /\ delivered = [pkts |-> 0, bytes |-> 0, last |-> <<>>]
  /\ jiffies = 0
  /\ dbell_jiffies = 0
  /\ dbell_deadline = (IF qtype = "rx" THEN IONIC_RX_MIN_DOORBELL_DEADLINE
                                       ELSE IONIC_TX_DOORBELL_DEADLINE)
  /\ napi_deadline = 0
  /\ linearize = 0

Init == InitWith(TxTypes \cup {"rx"})

InitTx == InitWith(TxTypes)

(***************************************************************************)
(* The hardware: it completes posted descriptors in ring order and writes  *)
(* one completion for a whole packet, carrying the index of the packet's   *)
(* last descriptor (a non-TSO descriptor, or the TSO descriptor with the   *)
(* end-of-transfer flag).  One completion may cover several packets.       *)
(***************************************************************************)
EndsPacket(i) == info[i].desc.op = "CSUM" \/ info[i].desc.eot

HwComplete ==
  /\ qtype \in TxTypes
  /\ \E k \in 1 .. ((head_idx - hw_idx) % num_descs) :
       LET c == Mask(hw_idx + k - 1)
       IN /\ EndsPacket(c)
          /\ cq' = Append(cq, c)
          /\ hw_idx' = Mask(c + 1)
  /\ UNCHANGED <<qtype, head_idx, tail_idx, info, dbell, stopped, stop, wake,
                 drop, dma_map_err, mapped, bad_unmap, held, double_free,
                 xskb, xmit_ret, next_skb, x_pc, s_pc, s_index, mtu,
                 rx_stats, pages, page_ref, delivered, jiffies, dbell_jiffies,
                 dbell_deadline, napi_deadline, linearize>>

(***************************************************************************)
(* Whole handlers, one at a time.                                          *)
(***************************************************************************)
StartXmit ==
  /\ qtype \in TxTypes
  /\ x_pc = "idle" /\ s_pc = "idle"
  /\ ~stopped
  /\ next_skb <= MaxPkts
  /\ stop < MaxStop
  /\ \E skb \in Skbs(next_skb) : \E env \in Envs(skb) :
       Apply(ionic_start_xmit(Cur, skb, env))
  /\ UNCHANGED <<qtype, cq, hw_idx, s_pc, s_index>>

\* the completion entry ionic_cq_service hands to ionic_tx_service
NextComp ==
  IF cq = <<>> THEN [color |-> FALSE, comp_index |-> 0]
  ELSE [color |-> TRUE, comp_index |-> Head(cq)]

TxService ==
  /\ qtype \in TxTypes
  /\ x_pc = "idle" /\ s_pc = "idle"
  /\ LET r == ionic_tx_service(Cur, NextComp)
     IN /\ Apply(r)
        /\ cq' = IF r.ret = 1 THEN Tail(cq) ELSE cq
  /\ UNCHANGED <<qtype, hw_idx, s_pc, s_index>>

\* teardown: the queue has been disabled, the hardware has forgotten it
TxEmpty ==
  /\ qtype \in TxTypes
  /\ x_pc = "idle" /\ s_pc = "idle"
  /\ Apply(ionic_tx_empty(Cur))
  /\ cq' = <<>>
  /\ hw_idx' = head_idx
  /\ UNCHANGED <<qtype, s_pc, s_index>>

(***************************************************************************)
(* The RX queue.  Fill and service both run from the queue's NAPI poll,    *)
(* one after the other.  The hardware fills posted buffers in ring order   *)
(* and writes one completion for each.                                     *)
(***************************************************************************)
\* the lengths the hardware reports: a short packet, one just above the
\* copy-break threshold, a full one, and one beyond what the MTU allows
RxLens(m) ==
  {IONIC_RX_COPYBREAK_DEFAULT \div 2,
   IONIC_RX_COPYBREAK_DEFAULT + 1,
   m + ETH_HLEN + VLAN_HLEN,
   m + ETH_HLEN + VLAN_HLEN + 1}

\* the buffers of slot i that hold the first len bytes, less one
RECURSIVE NumSgElems(_, _, _)
NumSgElems(lens, len, n) ==
  IF n >= Len(lens) \/ len <= lens[n] THEN n - 1
  ELSE NumSgElems(lens, len - lens[n], n + 1)

HwRxComplete ==
  /\ qtype = "rx"
  /\ hw_idx # head_idx
  /\ rx_stats.pkts + rx_stats.dropped + Len(cq) < MaxRx
  /\ \E st \in {0, 1} : \E l \in RxLens(mtu) :
       cq' = Append(cq, [color |-> TRUE, comp_index |-> hw_idx,
                         status |-> st, len |-> l,
                         num_sg_elems |->
                            NumSgElems(info[hw_idx].desc.lens, l, 1),
                         csum_flags |-> {}])
  /\ hw_idx' = Mask(hw_idx + 1)
  /\ UNCHANGED <<qtype, head_idx, tail_idx, info, dbell, stopped, stop, wake,
                 drop, dma_map_err, mapped, bad_unmap, held, double_free,
                 xskb, xmit_ret, next_skb, x_pc, s_pc, s_index, mtu,
                 rx_stats, pages, page_ref, delivered, jiffies, dbell_jiffies,
                 dbell_deadline, napi_deadline, linearize>>

\* the failing allocation, if any, is among the first of the pass: that
\* reaches the first buffer and the last buffer of the first and of the
\* second slot filled
FillEnvs ==
  [fail_at : 0 .. (2 * NumBufs), fail_kind : {"alloc", "map"}]

RxFill ==
  /\ qtype = "rx"
  /\ rx_stats.alloc_err + dma_map_err < MaxRxErr
  /\ \E env \in FillEnvs : Apply(ionic_rx_fill(Cur, env))
  /\ UNCHANGED <<qtype, cq, hw_idx, s_pc, s_index>>

ServiceEnvs == [skb_fail : BOOLEAN, reusable : BOOLEAN]

\* the completion entry ionic_cq_service hands to ionic_rx_service: when the
\* hardware has written nothing new, an entry of the previous lap, whose
\* color does not match
NextRxComp ==
  IF cq = <<>>
  THEN [color |-> FALSE, comp_index |-> tail_idx, status |-> 0, len |-> 0,
        num_sg_elems |-> 0, csum_flags |-> {}]
  ELSE Head(cq)

RxService ==
  /\ qtype = "rx"
  /\ \E env \in ServiceEnvs :
       LET r == ionic_rx_service(Cur, NextRxComp, env)
       IN /\ Apply(r)
          /\ cq' = IF r.ret = 1 THEN Tail(cq) ELSE cq
  /\ UNCHANGED <<qtype, hw_idx, s_pc, s_index>>

\* teardown: the queue has been disabled, the hardware has forgotten it
RxEmpty ==
  /\ qtype = "rx"
  /\ Apply(ionic_rx_empty(Cur))
  /\ cq' = <<>>
  /\ hw_idx' = 0
  /\ UNCHANGED <<qtype, s_pc, s_index>>

Next ==
  \/ StartXmit
  \/ HwComplete
  \/ TxService
  \/ TxEmpty
  \/ HwRxComplete
  \/ RxFill
  \/ RxService
  \/ RxEmpty

Spec == Init /\ [][Next]_vars

(***************************************************************************)
(* The same with a device that may also write a completion the queue does  *)
(* not expect: its color matches, its index is any slot of the ring,       *)
(* whether that slot is outstanding or not.  On a TX queue it does so once *)
(* the traffic is over and the ring has drained.                           *)
(***************************************************************************)
HwSpurious ==
  /\ cq = <<>>
  /\ rx_stats.pkts + rx_stats.dropped < MaxRx
  /\ qtype \in TxTypes => (head_idx = tail_idx /\ next_skb > MaxPkts)
  /\ \E c \in Slots :
       cq' = <<IF qtype = "rx"
               THEN [color |-> TRUE, comp_index |-> c, status |-> 0,
                     len |-> IONIC_RX_COPYBREAK_DEFAULT \div 2,
                     num_sg_elems |-> 0, csum_flags |-> {}]
               ELSE c>>
  /\ UNCHANGED <<qtype, head_idx, tail_idx, info, dbell, stopped, stop, wake,
                 drop, dma_map_err, mapped, bad_unmap, held, double_free,
                 xskb, xmit_ret, next_skb, hw_idx, x_pc, s_pc, s_index, mtu,
                 rx_stats, pages, page_ref, delivered, jiffies, dbell_jiffies,
                 dbell_deadline, napi_deadline, linearize>>

NextCq ==
  \/ Next
  \/ HwSpurious

SpecCq == Init /\ [][NextCq]_vars

(***************************************************************************)
(* The TX queue with the submit path (one CPU, under the stack's transmit  *)
(* lock) running against the completion path (NAPI on another CPU).  The   *)
(* submit path is cut at each read of the ring space and at the stop       *)
(* mark; the completion path at the advance of tail_idx and at the cleanup *)
(* of the slot it took.                                                    *)
(***************************************************************************)
MtXmitBegin ==
  /\ qtype \in TxTypes
  /\ x_pc = "idle"
  /\ ~stopped
  /\ next_skb <= MaxPkts
  /\ stop < MaxStop
  /\ \E skb \in Skbs(next_skb) : \E env \in Envs(skb) :
       Apply(xmit_begin(Cur, skb, env))
  /\ UNCHANGED <<qtype, cq, hw_idx, s_pc, s_index>>

MtXmitStep ==
  /\ x_pc # "idle"
  /\ \E env \in Envs(xskb) : Apply(xmit_step(Cur, env))
  /\ UNCHANGED <<qtype, cq, hw_idx, s_pc, s_index>>

\* ionic_cq_service finds a completion whose color matches
MtServiceBegin ==
  /\ qtype \in TxTypes
  /\ s_pc = "idle"
  /\ cq # <<>>
  /\ s_pc' = "advance"
  /\ UNCHANGED <<qtype, head_idx, tail_idx, info, dbell, stopped, stop, wake,
                 drop, dma_map_err, mapped, bad_unmap, held, double_free,
                 xskb, xmit_ret, next_skb, cq, hw_idx, x_pc, s_index, mtu,
                 rx_stats, pages, page_ref, delivered, jiffies, dbell_jiffies,
                 dbell_deadline, napi_deadline, linearize>>

MtServiceAdvance ==
  /\ s_pc = "advance"
  /\ s_index' = tail_idx
  /\ s_pc' = "clean"
  /\ \E r \in {tx_advance_tail(Cur)} : Apply(r)
  /\ UNCHANGED <<qtype, cq, hw_idx>>

\* the while condition of ionic_tx_service: index != comp_index
MtServiceClean ==
  /\ s_pc = "clean"
  /\ \E r \in {tx_clean_slot(Cur, s_index)} : Apply(r)
  /\ IF s_index # Head(cq)
     THEN s_pc' = "advance" /\ cq' = cq
     ELSE s_pc' = "idle" /\ cq' = Tail(cq)
  /\ UNCHANGED <<qtype, hw_idx, s_index>>

NextMT ==
  \/ MtXmitBegin
  \/ MtXmitStep
  \/ MtServiceBegin
  \/ MtServiceAdvance
  \/ MtServiceClean
  \/ HwComplete
  \/ TxEmpty

SpecMT == InitTx /\ [][NextMT]_vars

\* The same while the interface stays up (no teardown): a call of the
\* submit path runs to its return, NAPI runs while completions are pending,
\* and the hardware completes what was posted.
NextMTLive ==
  \/ MtXmitBegin
  \/ MtXmitStep
  \/ MtServiceBegin
  \/ MtServiceAdvance
  \/ MtServiceClean
  \/ HwComplete

SpecMTLive ==
  /\ InitTx
  /\ [][NextMTLive]_vars
  /\ []<>(x_pc = "idle")
  /\ WF_vars(MtServiceBegin)
  /\ WF_vars(MtServiceAdvance)
  /\ WF_vars(MtServiceClean)
  /\ WF_vars(HwComplete)

(***************************************************************************)
(* Segmentation.  One segmented packet of any length up to MaxLen, header  *)
(* up to MaxHdr, MSS up to MaxMss and any split of its bytes between the   *)
(* linear part and the fragments is sent on a TX queue whose ring stands   *)
(* at the start or just before the wrap, and is completed.                 *)
(***************************************************************************)
\* the headers lie in the linear part
TsoLayouts(l, h) ==
  { b \in UNION { [1 .. n -> 1 .. l] : n \in 1 .. NumBufs } :
      SumSeq(b) = l /\ b[1] >= h }

TsoSkbs(id) ==
  UNION { { GsoSkb(id, l, h, m, b) : b \in TsoLayouts(l, h) }
          : <<l, h, m>> \in { x \in (2 .. MaxLen) \X (1 .. MaxHdr)
                                      \X (1 .. MaxMss) :
                                x[2] < x[1] } }

TsoStarts == {0, num_descs - 2}

InitTso ==
  /\ qtype = "tx"
  /\ head_idx \in TsoStarts
  /\ tail_idx = head_idx
  /\ hw_idx = head_idx
  /\ dbell = head_idx
  /\ info = [i \in Slots |-> EmptyInfo]
  /\ stopped = FALSE
  /\ stop = 0
  /\ wake = 0
  /\ drop = 0
  /\ dma_map_err = 0
  /\ mapped = {}
  /\ bad_unmap = FALSE
  /\ held = {}
  /\ double_free = FALSE
  /\ xskb = NoSkb
  /\ xmit_ret = "NONE"
  /\ next_skb = 1
  /\ cq = <<>>
  /\ x_pc = "idle"
  /\ s_pc = "idle"
  /\ s_index = 0
  /\ mtu = 1500
  /\ rx_stats = [dropped |-> 0, pkts |-> 0, bytes |-> 0, alloc_err |-> 0,
                 csum_error |-> 0]
  /\ pages = {}
  /\ page_ref = NoPageRef
  /\ delivered = [pkts |-> 0, bytes |-> 0, last |-> <<>>]
  /\ jiffies = 0
  /\ dbell_jiffies = 0
  /\ dbell_deadline = (IF qtype = "rx" THEN IONIC_RX_MIN_DOORBELL_DEADLINE
                                       ELSE IONIC_TX_DOORBELL_DEADLINE)
  /\ napi_deadline = 0
  /\ linearize = 0

TsoXmitBegin ==
  /\ x_pc = "idle"
  /\ ~stopped
  /\ next_skb = 1
  /\ \E skb \in TsoSkbs(next_skb) : \E env \in Envs(skb) :
       Apply(xmit_begin(Cur, skb, env))
  /\ UNCHANGED <<qtype, cq, hw_idx, s_pc, s_index>>

NextTso ==
  \/ TsoXmitBegin
  \/ MtXmitStep
  \/ MtServiceBegin
  \/ MtServiceAdvance
  \/ MtServiceClean
  \/ HwComplete

SpecTso == InitTso /\ [][NextTso]_vars

(***************************************************************************)
(* Fragment lists.  One packet, segmented or not, with up to one fragment  *)
(* more than a descriptor has scatter-gather elements, is submitted to a   *)
(* fresh TX queue in one call, and completed.                              *)
(***************************************************************************)
SgLayouts(l, h) ==
  { b \in UNION { [1 .. n -> 1 .. l] : n \in 1 .. (NumBufs + 1) } :
      SumSeq(b) = l /\ b[1] >= h }

SgSkbs(id) ==
  PlainSkbs(id) \cup
  UNION { { GsoSkb(id, l, h, m, b) : b \in SgLayouts(l, h) }
          : <<l, h, m>> \in { x \in (2 .. MaxLen) \X (1 .. MaxHdr)
                                      \X (1 .. MaxMss) :
                                x[2] < x[1] } }

SgXmit ==
  /\ x_pc = "idle" /\ s_pc = "idle"
  /\ next_skb = 1
  /\ \E skb \in SgSkbs(next_skb) : \E env \in Envs(skb) :
       Apply(ionic_start_xmit(Cur, skb, env))
  /\ UNCHANGED <<qtype, cq, hw_idx, s_pc, s_index>>

NextSg ==
  \/ SgXmit
  \/ HwComplete
  \/ TxService

SpecSg == InitTx /\ [][NextSg]_vars

(***************************************************************************)
(* The queue under its NAPI poll routine, with time passing.  The poll     *)
(* runs whenever NAPI is scheduled, by the interrupt or by the timer       *)
(* napi_deadline; the first fill of an RX queue is the one of              *)
(* ionic_txrx_enable, on the ring as it was allocated.                     *)
(***************************************************************************)
MaxJiffies == 5
MaxBudget == 2
Budgets == 1 .. MaxBudget

Tick ==
  /\ jiffies < MaxJiffies
  /\ jiffies' = jiffies + 1
  /\ UNCHANGED <<qtype, head_idx, tail_idx, info, dbell, stopped, stop, wake,
                 drop, dma_map_err, mapped, bad_unmap, held, double_free,
                 xskb, xmit_ret, next_skb, cq, hw_idx, x_pc, s_pc, s_index,
                 mtu, rx_stats, pages, page_ref, delivered, dbell_jiffies,
                 dbell_deadline, napi_deadline, linearize>>

\* the timer expires: ionic_napi_deadline schedules NAPI
NapiTimer ==
  /\ napi_deadline # 0
  /\ jiffies >= napi_deadline
  /\ napi_deadline' = 0
  /\ UNCHANGED <<qtype, head_idx, tail_idx, info, dbell, stopped, stop, wake,
                 drop, dma_map_err, mapped, bad_unmap, held, double_free,
                 xskb, xmit_ret, next_skb, cq, hw_idx, x_pc, s_pc, s_index,
                 mtu, rx_stats, pages, page_ref, delivered, jiffies,
                 dbell_jiffies,
                 dbell_deadline, linearize>>

\* allocations fail MaxRxErr times at most, and succeed from then on
NapiFillEnvs ==
  IF rx_stats.alloc_err + dma_map_err < MaxRxErr
  THEN { e \in FillEnvs : e.fail_at <= 2 /\ e.fail_kind = "alloc" }
  ELSE { e \in FillEnvs : e.fail_at = 0 /\ e.fail_kind = "alloc" }

\* the packets of the poll are built without failure
NapiServiceEnvs == { e \in ServiceEnvs : ~e.skb_fail }

\* the stack submits unsegmented packets, and nothing fails
NapiXmit ==
  /\ qtype \in TxTypes
  /\ x_pc = "idle" /\ s_pc = "idle"
  /\ ~stopped
  /\ next_skb <= MaxPkts
  /\ \E skb \in PlainSkbs(next_skb) :
     \E env \in { e \in Envs(skb) : e.up /\ ~e.lin_fail /\ e.map_fail = -1
                                          /\ ~e.cow_fail } :
       Apply(ionic_start_xmit(Cur, skb, env))
  /\ UNCHANGED <<qtype, cq, hw_idx, s_pc, s_index>>

\* what ionic_txrx_napi sees of the other queue of the pair
OtherQueue(budget) == [work_done : {0, budget}, poke : BOOLEAN]

\* the device takes the descriptors the doorbell has announced, in ring
\* order; here every packet is a good one, short or of full length
NapiRxComplete ==
  /\ qtype = "rx"
  /\ hw_idx # dbell
  /\ rx_stats.pkts + rx_stats.dropped + Len(cq) < MaxRx
  /\ \E l \in {IONIC_RX_COPYBREAK_DEFAULT \div 2, mtu + ETH_HLEN + VLAN_HLEN} :
       cq' = Append(cq, [color |-> TRUE, comp_index |-> hw_idx,
                         status |-> 0, len |-> l,
                         num_sg_elems |->
                            NumSgElems(info[hw_idx].desc.lens, l, 1),
                         csum_flags |-> {}])
  /\ hw_idx' = Mask(hw_idx + 1)
  /\ UNCHANGED <<qtype, head_idx, tail_idx, info, dbell, stopped, stop, wake,
                 drop, dma_map_err, mapped, bad_unmap, held, double_free,
                 xskb, xmit_ret, next_skb, x_pc, s_pc, s_index, mtu,
                 rx_stats, pages, page_ref, delivered, jiffies, dbell_jiffies,
                 dbell_deadline, napi_deadline, linearize>>

NapiTxComplete ==
  /\ qtype \in TxTypes
  /\ hw_idx # dbell
  /\ cq' = Append(cq, hw_idx)
  /\ hw_idx' = Mask(hw_idx + 1)
  /\ UNCHANGED <<qtype, head_idx, tail_idx, info, dbell, stopped, stop, wake,
                 drop, dma_map_err, mapped, bad_unmap, held, double_free,
                 xskb, xmit_ret, next_skb, x_pc, s_pc, s_index, mtu,
                 rx_stats, pages, page_ref, delivered, jiffies, dbell_jiffies,
                 dbell_deadline, napi_deadline, linearize>>

RxEnable ==
  /\ qtype = "rx"
  /\ head_idx = 0 /\ tail_idx = 0 /\ info[0].cb = "NULL"
  /\ rx_stats.alloc_err + dma_map_err = 0
  /\ \E fenv \in NapiFillEnvs : Apply(ionic_rx_fill(Cur, fenv))
  /\ UNCHANGED <<qtype, cq, hw_idx, s_pc, s_index>>

TxNapi ==
  /\ qtype \in TxTypes
  /\ x_pc = "idle" /\ s_pc = "idle"
  /\ \E budget \in Budgets :
       LET r == ionic_tx_napi(Cur, budget)
       IN Apply(r) /\ cq' = r.cq
  /\ UNCHANGED <<qtype, hw_idx, s_pc, s_index>>

RxNapi ==
  /\ qtype = "rx"
  /\ \E budget \in Budgets : \E env \in NapiServiceEnvs :
     \E fenv \in NapiFillEnvs :
       LET r == ionic_rx_napi(Cur, budget, env, fenv)
       IN Apply(r) /\ cq' = r.cq
  /\ UNCHANGED <<qtype, hw_idx, s_pc, s_index>>

TxRxNapi ==
  /\ x_pc = "idle" /\ s_pc = "idle"
  /\ \E budget \in (IF qtype = "rx" THEN Budgets ELSE {MaxBudget}) :
     \E tx_budget \in (IF qtype = "rx" THEN {MaxBudget} ELSE Budgets) :
     \E env \in (IF qtype = "rx" THEN NapiServiceEnvs
                                 ELSE {Value(NapiServiceEnvs)}) :
     \E fenv \in (IF qtype = "rx" THEN NapiFillEnvs
                                  ELSE {Value(NapiFillEnvs)}) :
     \E other \in OtherQueue(IF qtype = "rx" THEN 0 ELSE budget) :
       LET r == ionic_txrx_napi(Cur, budget, tx_budget, env, fenv, other)
       IN Apply(r) /\ cq' = r.cq
  /\ UNCHANGED <<qtype, hw_idx, s_pc, s_index>>

NextNapi ==
  \/ Tick
  \/ NapiTimer
  \/ NapiXmit
  \/ NapiTxComplete
  \/ TxNapi
  \/ NapiRxComplete
  \/ RxEnable
  \/ RxNapi
  \/ TxRxNapi

InitNapi == InitWith({"tx", "rx"}) /\ mtu = 1500

SpecNapi == InitNapi /\ [][NextNapi]_vars

(***************************************************************************)
(* Properties of the TX queue under whole handlers.                        *)
(***************************************************************************)
\* the slots between tail_idx and head_idx: posted and not yet cleaned
Outstanding ==
  { i \in Slots :
      (i - tail_idx) % num_descs < (head_idx - tail_idx) % num_descs }

\* the slots whose callback argument is packet p
HoldersOf(p) == { i \in Slots : info[i].cb_arg = p }

\* the addresses recorded as mapped buffers of the outstanding slots
RecordedIn(i) == { info[i].bufs[b].dma_addr : b \in 0 .. (info[i].nbufs - 1) }

\* C1: every packet the driver took (ionic_start_xmit did not return busy
\* for it) is released exactly once.  No packet is released that the driver
\* does not hold (none twice, and none by the cleanup of a slot without a
\* callback argument); a packet is held exactly while it is in the hands of
\* the running submit call or is the callback argument of one single slot
\* that is still to be cleaned; and once the ring is drained nothing is
\* held any more.
C1_ReleasedExactlyOnce ==
  /\ ~double_free
  /\ \A p \in Pkts :
       /\ Cardinality(HoldersOf(p)) <= 1
       /\ (p \in held) <=> (xskb.id = p \/ HoldersOf(p) # {})
       /\ xskb.id = p => HoldersOf(p) = {}
       /\ (x_pc = "idle" /\ s_pc = "idle") => HoldersOf(p) \subseteq Outstanding
  /\ (x_pc = "idle" /\ s_pc = "idle" /\ head_idx = tail_idx) => held = {}

\* one packet dropped inside submit, another released by the cleanup of a
\* segmented packet's first slot, its slots without callback argument
\* cleaned after it
C1_DroppedAndCleaned ==
  /\ drop = 1
  /\ next_skb = 3
  /\ held = {}
  /\ head_idx = tail_idx
  /\ \E i \in Slots : info[i].desc.op = "TSO" /\ ~info[i].desc.sot

C7_MapFailureUnwinds ==
  [][ (StartXmit /\ dma_map_err' > dma_map_err) =>
        /\ xmit_ret' = "OK"
        /\ drop' = drop + 1
        /\ head_idx' = head_idx
        /\ mapped' = mapped
        /\ bad_unmap' = bad_unmap
        /\ held' = held
        /\ double_free' = double_free
        /\ \A i \in Slots : /\ info'[i].cb = info[i].cb
                            /\ info'[i].cb_arg = info[i].cb_arg ]_vars

\* a send whose fragment mapping failed after the header had been mapped
C7_FragFailed ==
  /\ dma_map_err = 2
  /\ drop = 1
  /\ head_idx = 0
  /\ next_skb = 2

(***************************************************************************)
(* Properties of the submit path running against the completion path.      *)
(***************************************************************************)
\* what a step of the busy path must leave alone
BusyPathFrame ==
  UNCHANGED <<head_idx, tail_idx, info, dbell, drop, wake, dma_map_err,
              mapped, bad_unmap, double_free, next_skb>>

\* the steps of a call of ionic_start_xmit that lead to a busy return
XmitToStop == MtXmitBegin /\ x_pc' = "stop"
XmitStop == MtXmitStep /\ x_pc = "stop"
XmitRecheck == MtXmitStep /\ x_pc = "recheck"
XmitBusy == XmitRecheck /\ x_pc' = "idle"

C4_Backpressure ==
  [][ /\ XmitStop => stopped' /\ stop' = stop + 1 /\ x_pc' = "recheck"
      /\ XmitRecheck =>
           IF ionic_q_has_space(Cur, xmit_ndescs(Cur))
           THEN ~stopped' /\ wake' = wake /\ x_pc' = "send" /\ xskb' = xskb
           ELSE xmit_ret' = "BUSY" /\ x_pc' = "idle" /\ stopped' = stopped
      /\ (x_pc = "recheck" /\ stopped /\ ~stopped') =>
           \/ XmitRecheck
           \/ MtServiceClean /\ wake' = wake + 1 /\ info[s_index].cb_arg # 0
      /\ (MtXmitStep /\ x_pc = "send" /\ drop' = drop) =>
           /\ head_idx' = Mask(head_idx + xmit_ndescs(Cur))
           /\ info'[head_idx].cb_arg = xskb.id ]_vars

\* the re-check found space: the mark was set once, no wake was counted,
\* the subqueue is not stopped and the call is about to send
C4_RecheckFoundSpace ==
  /\ x_pc = "send"
  /\ stop = 1
  /\ drop = 0
  /\ wake = 0
  /\ ~stopped

\* C5: on a queue without the HWSTAMP feature, with the hardware completing
\* what is posted and NAPI servicing the completions, a subqueue that was
\* marked stopped is woken again.
C5_StoppedIsWoken == (qtype = "tx" /\ stopped) ~> ~stopped

\* the state a lost wake-up ends in: the subqueue stopped, the ring drained,
\* no completion pending, the stack waiting with its packet
C5_StoppedAndDrained ==
  /\ qtype = "tx"
  /\ stopped
  /\ xmit_ret = "BUSY"
  /\ head_idx = tail_idx
  /\ cq = <<>>
  /\ x_pc = "idle" /\ s_pc = "idle"

\* C3: on every queue, TX or RX, across post, service, fill and empty,
\* head_idx and tail_idx stay within [0, N), and no state is both full
\* (one more post would make head_idx = tail_idx) and empty.
C3_IndicesInRing ==
  /\ head_idx \in 0 .. (num_descs - 1)
  /\ tail_idx \in 0 .. (num_descs - 1)
  /\ ~((head_idx + 1) % num_descs = tail_idx /\ head_idx = tail_idx)

\* an RX ring filled again after two completions were serviced: head_idx
\* has wrapped past the end of the ring and the ring is full
C3_FullAfterWrap ==
  /\ qtype = "rx"
  /\ tail_idx = MaxRx
  /\ head_idx = tail_idx - 1
  /\ (head_idx + 1) % num_descs = tail_idx

\* the completion at the head of the completion queue is one the cleanup
\* drops: non-zero status, or a length beyond MTU + ETH_HLEN + VLAN_HLEN
RxBadComp ==
  /\ cq # <<>>
  /\ \/ Head(cq).status # 0
     \/ Head(cq).len > mtu + ETH_HLEN + VLAN_HLEN

\* C10: servicing such a completion counts one drop and nothing else: no
\* packet goes up, pkts and bytes stay, the slot's buffers keep their pages,
\* offsets and mappings, nothing is unmapped or freed, and tail_idx moves
\* on by one.
C10_BadCompletionDropped ==
  [][ (RxService /\ RxBadComp /\ cq' = Tail(cq)) =>
        /\ rx_stats'.dropped = rx_stats.dropped + 1
        /\ rx_stats'.pkts = rx_stats.pkts
        /\ rx_stats'.bytes = rx_stats.bytes
        /\ delivered' = delivered
        /\ info'[tail_idx].bufs = info[tail_idx].bufs
        /\ mapped' = mapped
        /\ pages' = pages
        /\ bad_unmap' = bad_unmap
        /\ double_free' = double_free
        /\ tail_idx' = (tail_idx + 1) % num_descs ]_vars

\* two completions dropped, the first slot's page still in place
C10_TwoDropped ==
  /\ qtype = "rx"
  /\ rx_stats.dropped = 2
  /\ rx_stats.pkts = 0
  /\ delivered.pkts = 0
  /\ tail_idx = 2
  /\ info[0].bufs[0].page \in pages
  /\ info[0].bufs[0].dma_addr \in mapped

(***************************************************************************)
(* Properties of the segmentation, on the step of ionic_start_xmit that    *)
(* sends a segmented packet and does not drop it.                          *)
(***************************************************************************)
TsoSent == MtXmitStep /\ x_pc = "send" /\ xskb.gso /\ drop' = drop

\* the descriptors the step posted, and the k-th slot it posted into
TsoPosted == (head_idx' - head_idx) % num_descs
TsoSlot(k) == (head_idx + k) % num_descs

\* the bytes of the packet carried by the first k descriptors in inf
RECURSIVE TsoBytes(_, _)
TsoBytes(inf, k) ==
  IF k = 0 THEN 0
  ELSE inf[TsoSlot(k - 1)].desc.bytes + TsoBytes(inf, k - 1)

\* C8: of the descriptors a TSO send posts, the first and only the first
\* carries the start flag, and the one that holds the packet's last byte,
\* and only that one, carries the end flag (so a packet of one descriptor
\* has both flags on it).
C8_OneStartOneEnd ==
  [][ TsoSent =>
        /\ TsoPosted >= 1
        /\ \A k \in 0 .. (TsoPosted - 1) :
             LET d == info'[TsoSlot(k)].desc
             IN /\ d.op = "TSO"
                /\ d.sot = (k = 0)
                /\ d.eot = (/\ TsoBytes(info', k) < xskb.len
                            /\ TsoBytes(info', k + 1) >= xskb.len) ]_vars

\* three descriptors were posted across the wrap of the ring: the start
\* flag on the first, the end flag on the third
C8_ThreePosted ==
  /\ x_pc = "check4"
  /\ tail_idx = num_descs - 2
  /\ head_idx = 1
  /\ info[num_descs - 2].desc.sot /\ ~info[num_descs - 2].desc.eot
  /\ ~info[num_descs - 1].desc.sot /\ ~info[num_descs - 1].desc.eot
  /\ ~info[0].desc.sot /\ info[0].desc.eot

\* C9: a TSO send of a packet with payload posts DIV_ROUND_UP(len - hdrlen,
\* mss) descriptors, which is its gso_segs, the demand ionic_tx_descs_needed
\* reports; the ring had that much space.
C9_DescsMatchDemand ==
  [][ (TsoSent /\ xskb.hdrlen < xskb.len) =>
        /\ TsoPosted = DivRoundUp(xskb.len - xskb.hdrlen, xskb.mss)
        /\ TsoPosted = xskb.gso_segs
        /\ TsoPosted = ionic_tx_descs_needed(Cur, [lin_fail |-> FALSE]).ret
        /\ TsoPosted <= ionic_q_space_avail(Cur)
        /\ TsoBytes(info', TsoPosted) = xskb.len ]_vars

\* length 6, header 1, MSS 2: three descriptors of 3, 2 and 1 bytes
C9_UnevenSegments ==
  /\ x_pc = "check4"
  /\ tail_idx = 0
  /\ head_idx = 3
  /\ info[0].desc.bytes = 3
  /\ info[1].desc.bytes = 2
  /\ info[2].desc.bytes = 1

(***************************************************************************)
(* Properties of the RX queue.                                             *)
(***************************************************************************)
\* the completion at the head of the completion queue is one ionic_rx_clean
\* accepts for the slot at tail_idx
RxGoodComp ==
  /\ qtype = "rx"
  /\ cq # <<>>
  /\ Head(cq).color
  /\ tail_idx # head_idx
  /\ Head(cq).comp_index = tail_idx
  /\ Head(cq).status = 0
  /\ Head(cq).len <= mtu + ETH_HLEN + VLAN_HLEN

\* C11: a completion with status 0 and a length up to the copy-break
\* threshold (and within the MTU bound) takes the copy path: the packet
\* delivered is one copy of exactly len bytes from the first buffer's page
\* at its current offset; the buffer keeps its page, its offset and its
\* mapping (also when the packet could not be allocated); and a fill pass
\* leaves every buffer that has a page as it is, so such a buffer is posted
\* again without a new allocation.
C11_CopyPathKeepsBuffer ==
  [][/\ (RxService /\ RxGoodComp
           /\ Head(cq).len <= IONIC_RX_COPYBREAK_DEFAULT)
          => LET buf == info[tail_idx].bufs[0]
                 len == Head(cq).len
             IN /\ buf.page \in pages /\ buf.dma_addr \in mapped
                /\ info'[tail_idx].bufs = info[tail_idx].bufs
                /\ mapped' = mapped /\ pages' = pages
                /\ \/ delivered' =
                         [pkts |-> delivered.pkts + 1,
                          bytes |-> delivered.bytes + len,
                          last |-> <<[page |-> buf.page,
                                      off |-> buf.page_offset,
                                      len |-> len, copied |-> TRUE,
                                      reusable |-> FALSE]>>]
                   \/ /\ delivered' = delivered
                      /\ rx_stats'.alloc_err = rx_stats.alloc_err + 1
     /\ RxFill
          => \A i \in Slots : \A b \in 0 .. (NumBufs - 1) :
               info[i].bufs[b].page # 0
                 => info'[i].bufs[b] = info[i].bufs[b]
    ]_vars

\* a packet was copied out of a slot's buffer and the slot is posted again
\* with that same page at that same offset
C11_CopiedAndReposted ==
  /\ qtype = "rx"
  /\ delivered.last # <<>>
  /\ delivered.last[1].copied
  /\ \E i \in Outstanding :
       /\ i = 0 /\ tail_idx = 2
       /\ info[i].bufs[0].page = delivered.last[1].page
       /\ info[i].bufs[0].page_offset = delivered.last[1].off

\* C12: on the fragment path each buffer the packet uses is kept iff its
\* page is reusable and the MTU is at most IONIC_PAGE_SPLIT_MAX_MTU and the
\* offset advanced by ALIGN(bytes used, IONIC_PAGE_SPLIT_SZ) is still below
\* IONIC_PAGE_SIZE.  A kept buffer has its offset advanced by that amount,
\* its bias count one lower, and its page and mapping still owned; any
\* other buffer is unmapped and its page pointer cleared.  In every state a
\* buffer that has a page has its offset inside the page.
C12_RecycleRule ==
  /\ [](\A i \in Slots : \A b \in 0 .. (NumBufs - 1) :
          info[i].bufs[b].page # 0
            => /\ info[i].bufs[b].page_offset >= 0
               /\ info[i].bufs[b].page_offset < IONIC_PAGE_SIZE)
  /\ [][(RxService /\ RxGoodComp
           /\ Head(cq).len > IONIC_RX_COPYBREAK_DEFAULT
           /\ delivered'.pkts = delivered.pkts + 1)
          => LET last == delivered'.last
                 n == Head(cq).num_sg_elems + 1
             IN /\ Len(last) = n
                /\ \A b \in 0 .. (n - 1) :
                     LET buf == info[tail_idx].bufs[b]
                         fr == last[b + 1]
                         adv == Align(fr.len, IONIC_PAGE_SPLIT_SZ)
                         keep == /\ fr.reusable
                                 /\ mtu <= IONIC_PAGE_SPLIT_MAX_MTU
                                 /\ buf.page_offset + adv < IONIC_PAGE_SIZE
                         nb == info'[tail_idx].bufs[b]
                     IN /\ fr.page = buf.page /\ fr.off = buf.page_offset
                        /\ ~fr.copied
                        /\ IF keep
                           THEN /\ nb = [buf EXCEPT
                                           !.page_offset = @ + adv,
                                           !.pagecnt_bias = @ - 1]
                                /\ buf.dma_addr \in mapped'
                                /\ buf.page \in pages'
                           ELSE /\ nb.page = 0
                                /\ buf.dma_addr \notin mapped'
                                /\ buf.page \notin pages'
       ]_vars

\* two packets went up by the fragment path: the buffer of slot 0 was kept
\* at the advanced offset, the buffer of slot 1 was given away
C12_OneKeptOneGiven ==
  /\ qtype = "rx"
  /\ delivered.pkts = 2
  /\ tail_idx = 2
  /\ info[0].bufs[0].page # 0
  /\ info[0].bufs[0].page_offset = IONIC_PAGE_SPLIT_SZ
  /\ info[1].bufs[0].page = 0
  /\ ~delivered.last[1].copied

(***************************************************************************)
(* Properties of the completion paths and of teardown.                     *)
(***************************************************************************)
\* the slots from tail_idx through c, in ring order
TailThrough(c) ==
  { i \in Slots : (i - tail_idx) % num_descs <= (c - tail_idx) % num_descs }

\* the packets that are the callback arguments of the slots of S
ArgsOf(S) == { info[i].cb_arg : i \in S } \ {0}

\* C13: ionic_tx_service, given a completion whose color matches and whose
\* comp_index c is an outstanding slot, cleans the slots from tail_idx
\* through c and no other: each has its callback and argument cleared and
\* its buffers unmapped, the packets they carried are released (none
\* twice), every other slot is untouched, tail_idx ends at (c + 1) mod N and
\* head_idx is unchanged.
C13_ServiceDrainsThrough ==
  [][(TxService /\ cq # <<>> /\ Head(cq) \in Outstanding)
       => LET c == Head(cq)
              Cleaned == TailThrough(c)
          IN /\ tail_idx' = Mask(c + 1)
             /\ head_idx' = head_idx
             /\ cq' = Tail(cq)
             /\ \A i \in Cleaned :
                  /\ info'[i].cb = "NULL" /\ info'[i].cb_arg = 0
                  /\ info'[i].nbufs = 0
                  /\ RecordedIn(i) \cap mapped' = {}
             /\ \A i \in Slots \ Cleaned : info'[i] = info[i]
             /\ held' = held \ ArgsOf(Cleaned)
             /\ mapped' = mapped \ UNION { RecordedIn(i) : i \in Cleaned }
             /\ double_free' = double_free
             /\ (dma_map_err = 0 => bad_unmap' = bad_unmap)
    ]_vars

\* one completion took the two descriptors of a TSO packet off the ring
\* while the completion of the packet behind it is still to be serviced
C13_TwoSlotsAtOnce ==
  /\ qtype = "tx"
  /\ info[0].desc.sot /\ ~info[0].desc.eot
  /\ info[1].desc.eot
  /\ info[0].cb = "NULL" /\ info[1].cb = "NULL"
  /\ tail_idx = 2
  /\ cq = <<2>>
  /\ held = {2}

\* C14: ionic_rx_service takes one slot for one completion.  When the
\* entry's color matches, the queue is not empty and comp_index is
\* tail_idx, it consumes the entry, advances tail_idx by one (mod N), leaves
\* head_idx and every other slot as they are and clears the callback of the
\* slot it took.  When the color does not match or comp_index is another
\* slot, it consumes nothing and nothing of the queue changes.
C14_OneSlotPerCompletion ==
  [][RxService
       => IF /\ NextRxComp.color
             /\ tail_idx # head_idx
             /\ NextRxComp.comp_index = tail_idx
          THEN /\ cq' = Tail(cq)
               /\ tail_idx' = Mask(tail_idx + 1)
               /\ head_idx' = head_idx
               /\ info'[tail_idx].cb = "NULL"
               /\ info'[tail_idx].cb_arg = 0
               /\ \A i \in Slots \ {tail_idx} : info'[i] = info[i]
               /\ rx_stats'.pkts + rx_stats'.dropped
                    >= rx_stats.pkts + rx_stats.dropped + 1
          ELSE UNCHANGED vars
    ]_vars

\* one slot was taken for its completion, and the entry now at the head of
\* the completion queue names a slot that is not the one at tail_idx
C14_OneTakenOneRefused ==
  /\ qtype = "rx"
  /\ tail_idx = 1
  /\ head_idx # tail_idx
  /\ rx_stats.pkts = 1
  /\ cq # <<>>
  /\ Head(cq).color
  /\ Head(cq).comp_index # tail_idx

\* C15: in both directions a completion whose color matches, handed to the
\* service routine while the queue is empty (head_idx = tail_idx), is not
\* consumed: tail_idx stays, no slot is touched, the entry stays.
C15_EmptyQueueRefuses ==
  [][(/\ head_idx = tail_idx
      /\ cq # <<>>
      /\ \/ TxService
         \/ RxService /\ Head(cq).color)
       => /\ tail_idx' = tail_idx
          /\ info' = info
          /\ cq' = cq
    ]_vars

\* a TX queue whose tail_idx has gone past head_idx: slots count as
\* outstanding, none of them has a callback, and the hardware has nothing
\* left to complete
C15_TailPastHead ==
  /\ qtype \in TxTypes
  /\ head_idx # tail_idx
  /\ hw_idx = head_idx
  /\ cq = <<>>
  /\ \A i \in Slots : info[i].cb = "NULL" /\ info[i].cb_arg = 0

\* C16: ionic_rx_empty, from whatever state the RX queue is in, leaves no
\* slot with a page, a buffer count or a callback, leaves nothing mapped and
\* no page owned (the buffers of slots that are not posted included), has
\* released nothing that was not owned, and leaves head_idx = tail_idx = 0.
C16_RxEmptyReleasesAll ==
  [][RxEmpty
       => /\ \A i \in Slots :
               /\ \A b \in 0 .. (NumBufs - 1) : info'[i].bufs[b].page = 0
               /\ info'[i].nbufs = 0
               /\ info'[i].cb = "NULL" /\ info'[i].cb_arg = 0
          /\ mapped' = {}
          /\ pages' = {}
          /\ bad_unmap' = bad_unmap
          /\ double_free' = double_free
          /\ head_idx' = 0 /\ tail_idx' = 0
    ]_vars

\* the queue is empty and owns nothing, after a packet went up by the
\* fragment path from a buffer that was kept for reuse
C16_EmptiedAfterRecycle ==
  /\ qtype = "rx"
  /\ mtu <= IONIC_PAGE_SPLIT_MAX_MTU
  /\ rx_stats.pkts = 1 /\ rx_stats.dropped = 0
  /\ delivered.pkts = 1
  /\ ~delivered.last[1].copied
  /\ delivered.last[1].reusable
  /\ head_idx = 0 /\ tail_idx = 0
  /\ pages = {} /\ mapped = {}
  /\ \A i \in Slots : info[i].bufs[0].page = 0 /\ info[i].nbufs = 0

\* what ionic_tx_empty does to the slots, the packets and the mappings:
\* every outstanding slot is cleaned (buffers unmapped, packet released,
\* callback cleared), every other slot is untouched, no packet stays held,
\* nothing is released twice, and no mapping stays (when a mapping has
\* failed before, no mapping that a slot records)
TxEmptyCleansAll ==
  /\ \A i \in Outstanding :
       /\ info'[i].cb = "NULL" /\ info'[i].cb_arg = 0
       /\ info'[i].nbufs = 0
  /\ \A i \in Slots \ Outstanding : info'[i] = info[i]
  /\ held' = {}
  /\ double_free' = double_free
  /\ mapped' = mapped \ UNION { RecordedIn(i) : i \in Outstanding }
  /\ dma_map_err = 0 => (mapped' = {} /\ bad_unmap' = bad_unmap)

C18_DownDropsQuietly ==
  (qtype \in TxTypes /\ x_pc = "idle" /\ next_skb <= MaxPkts)
    => \A skb \in Skbs(next_skb) : \A env \in Envs(skb) :
         ~env.up
           => ionic_start_xmit(Cur, skb, env)
                = [Cur EXCEPT !.xmit_ret = "OK", !.next_skb = @ + 1]

\* the first packet was accepted and is gone: nothing was posted or mapped
\* and neither stop nor drop was counted
C18_AcceptedWhileDown ==
  /\ qtype \in TxTypes
  /\ next_skb = 2
  /\ xmit_ret = "OK"
  /\ held = {} /\ mapped = {}
  /\ head_idx = 0 /\ tail_idx = 0
  /\ drop = 0 /\ stop = 0 /\ dma_map_err = 0

(***************************************************************************)
(* Properties of ionic_rx_fill.                                            *)
(***************************************************************************)
\* the buffers (slot, index) that have a page
RxAttached ==
  { sb \in Slots \X (0 .. (NumBufs - 1)) : info[sb[1]].bufs[sb[2]].page # 0 }

\* the descriptors the fill pass of this step posted, and its k-th slot
FillPosted == (head_idx' - head_idx) % num_descs
FillSlot(k) == (head_idx + k) % num_descs

\* the pass of this step ended on a failed allocation or mapping
FillFailed ==
  rx_stats'.alloc_err + dma_map_err' > rx_stats.alloc_err + dma_map_err

C20_PassEndsWithDoorbell ==
  [][RxFill => dbell' = head_idx']_vars

\* a descriptor is posted and the doorbell register still holds the index
\* from before the pass, which stopped on a failed allocation
C20_PostedNotAnnounced ==
  /\ qtype = "rx"
  /\ rx_stats.alloc_err + dma_map_err = 1
  /\ rx_stats.pkts + rx_stats.dropped = 0
  /\ head_idx = 1
  /\ info[0].cb = "ionic_rx_clean"
  /\ dbell = 0

(***************************************************************************)
(* Properties of the doorbell window and of the poll routines.             *)
(***************************************************************************)
\* a poll of the RX queue that takes no completion, so that it pokes
RxPollPokes == (RxNapi \/ TxRxNapi) /\ qtype = "rx" /\ cq = <<>>

\* the poke finds the ring non-empty and the last ring within the window
RingSkipped ==
  /\ head_idx # tail_idx
  /\ jiffies - dbell_jiffies <= dbell_deadline

\* a call of ionic_rx_fill that posts a descriptor
FillRefills ==
  /\ qtype = "rx"
  /\ RxEnable \/ RxNapi \/ TxRxNapi
  /\ head_idx' # head_idx

\* C21: the RX doorbell window dbell_deadline doubles, up to
\* IONIC_RX_MAX_DOORBELL_DEADLINE, each time the poke skips a ring; it is
\* back at IONIC_RX_MIN_DOORBELL_DEADLINE after every call of ionic_rx_fill
\* that refills; and it always lies between the minimum and the cap.
C21_WindowGrowsOnSkip ==
  /\ [](qtype = "rx" =>
         /\ dbell_deadline >= IONIC_RX_MIN_DOORBELL_DEADLINE
         /\ dbell_deadline <= IONIC_RX_MAX_DOORBELL_DEADLINE)
  /\ [][RxPollPokes /\ RingSkipped =>
          dbell_deadline' = Min(2 * dbell_deadline,
                                IONIC_RX_MAX_DOORBELL_DEADLINE)]_vars
  /\ [][FillRefills => dbell_deadline' = IONIC_RX_MIN_DOORBELL_DEADLINE]_vars

\* the poke finds the ring non-empty and the last ring outside the window
RingDue ==
  /\ head_idx # tail_idx
  /\ jiffies - dbell_jiffies > dbell_deadline

\* a call of ionic_rx_fill in which no allocation fails
FillPassEnds ==
  /\ qtype = "rx"
  /\ RxEnable \/ RxNapi \/ TxRxNapi
  /\ head_idx' # head_idx
  /\ rx_stats'.alloc_err + dma_map_err' = rx_stats.alloc_err + dma_map_err

\* C21, as the code has it: the window doubles, up to the cap, each time
\* the poke rings the doorbell because the last ring is older than the
\* window, and stays as it is when the poke skips the ring; it is back at
\* the minimum after every fill pass in which no allocation failed (a pass
\* that stops on a failed allocation leaves it as it is); and it always
\* lies between the minimum and the cap.
C21_WindowGrowsOnRing ==
  /\ [](qtype = "rx" =>
         /\ dbell_deadline >= IONIC_RX_MIN_DOORBELL_DEADLINE
         /\ dbell_deadline <= IONIC_RX_MAX_DOORBELL_DEADLINE)
  /\ [][RxPollPokes /\ RingDue =>
          dbell_deadline' = Min(2 * dbell_deadline,
                                IONIC_RX_MAX_DOORBELL_DEADLINE)]_vars
  /\ [][RxPollPokes /\ RingSkipped => UNCHANGED dbell_deadline]_vars
  /\ [][FillPassEnds =>
          dbell_deadline' = IONIC_RX_MIN_DOORBELL_DEADLINE]_vars
  /\ [][FillRefills /\ ~FillPassEnds => UNCHANGED dbell_deadline]_vars

\* the window has been doubled twice and stands at the cap, the doorbell
\* having just been rung by the poke
C21_WindowAtCap ==
  /\ qtype = "rx"
  /\ dbell_deadline = IONIC_RX_MAX_DOORBELL_DEADLINE
  /\ dbell_jiffies = jiffies
  /\ head_idx # tail_idx

(***************************************************************************)
(* Properties of the fragment lists.                                       *)
(***************************************************************************)
\* what ionic_start_xmit does of a packet whose fragments outnumber the
\* scatter-gather elements: when skb_linearize fails, a drop that leaves the
\* ring and the mappings alone; otherwise one buffer, the linear one
OverFraggedHandled(skb, env) ==
  LET r == ionic_start_xmit(Cur, skb, env)
  IN IF env.lin_fail
     THEN /\ r.xmit_ret = "OK"
          /\ r.drop = drop + 1
          /\ r.held = held /\ ~r.double_free
          /\ r.mapped = mapped /\ r.dma_map_err = dma_map_err
          /\ r.linearize = linearize
          /\ r.head_idx = head_idx /\ r.info = info /\ r.dbell = dbell
     ELSE /\ r.linearize = linearize + 1
          /\ r.head_idx # head_idx =>
                /\ r.info[head_idx].nbufs = 1
                /\ Cardinality(r.mapped) <= Cardinality(mapped) + 1

\* C22: no descriptor of the ring carries more scatter-gather elements than
\* max_sg_elems, in a plain send and in every descriptor of a segmented
\* one; a packet with more fragments than that is linearized before it is
\* mapped, and dropped (freed, drop counted, NETDEV_TX_OK) with nothing
\* mapped or posted when linearizing fails.
C22_SgElemsBounded ==
  /\ \A i \in Slots : info[i].desc.nsge <= max_sg_elems
  /\ (x_pc = "idle" /\ next_skb = 1) =>
       \A skb \in SgSkbs(next_skb) : \A env \in Envs(skb) :
         (env.up /\ nr_frags(skb) > max_sg_elems) =>
            OverFraggedHandled(skb, env)

\* a segmented packet of three buffers went out linearized, its first
\* descriptor carrying the header and a whole segment from the one buffer
C22_LinearizedAndSent ==
  /\ linearize = 1
  /\ xmit_ret = "OK"
  /\ head_idx = 2 /\ Cardinality(mapped) = 1
  /\ info[0].cb = "ionic_tx_clean" /\ info[0].nbufs = 1
  /\ info[0].desc.sot /\ info[0].desc.nsge = 0 /\ info[0].desc.bytes > 1
  /\ info[1].desc.eot /\ info[1].desc.nsge = 0

(***************************************************************************)
(* Properties of the ring indices.                                         *)
(***************************************************************************)
\* how far an index went from a to b, going forward
Advance(a, b) == (b - a) % num_descs

\* C23: a submission (ionic_start_xmit with ionic_tx and ionic_tx_tso) and
\* a fill pass (ionic_rx_fill) leave tail_idx alone and move head_idx
\* forward, by no more than the free space; a completion service
\* (ionic_tx_service, ionic_rx_service) leaves head_idx alone and moves
\* tail_idx forward, over outstanding slots when there are any.  Teardown
\* is the one that writes both.
C23_IndexOwnership ==
  /\ [][StartXmit \/ RxFill =>
          /\ tail_idx' = tail_idx
          /\ Advance(head_idx, head_idx') <= ionic_q_space_avail(Cur)]_vars
  /\ [][TxService \/ RxService =>
          /\ head_idx' = head_idx
          /\ head_idx # tail_idx =>
                Advance(tail_idx, tail_idx') <= Advance(tail_idx, head_idx)]_vars

\* three descriptors were submitted and the first was completed and serviced
C23_BothAdvanced ==
  /\ qtype \in TxTypes
  /\ head_idx = 3 /\ tail_idx = 1
  /\ info[0].cb = "NULL"
  /\ info[1].cb = "ionic_tx_clean"

(***************************************************************************)
(* Properties of the submit path running against the completion path.      *)
(***************************************************************************)
\* C24: while ionic_tx_service has taken a slot (tail_idx is past it) and
\* has not yet cleaned it, no step of the submit path writes that slot's
\* bufs, nbufs, cb or cb_arg; so the nbufs = 0 that ionic_tx_tso writes at
\* the new head_idx never hides a slot's mappings from
\* ionic_tx_desc_unmap_bufs.
C24_SubmitLeavesTakenSlot ==
  [][((MtXmitBegin \/ MtXmitStep) /\ s_pc = "clean") =>
        info'[s_index] = info[s_index]]_vars

\* both packets were sent without a mapping failure and all their
\* descriptors were cleaned, and a mapping of the first packet is still
\* live: its slot was cleaned with nbufs already zeroed
C24_MappingLeaked ==
  /\ next_skb > MaxPkts /\ x_pc = "idle" /\ s_pc = "idle"
  /\ head_idx = tail_idx /\ head_idx = 0 /\ cq = <<>>
  /\ dma_map_err = 0 /\ drop = 0 /\ held = {}
  /\ mapped # {}
  /\ info[0].bufs[0].dma_addr \in mapped

(***************************************************************************)
(* Posting and the ring space.                                             *)
(***************************************************************************)
\* the slots a step posts into: from the old head_idx up to the new one
PostedSlots == { Mask(head_idx + k) : k \in 0 .. (Advance(head_idx, head_idx') - 1) }

\* the slot holds no packet waiting for cleanup and records no mapping of
\* one: a TX slot has no callback, no packet and no buffers; an RX slot,
\* which keeps its pages from one lap to the next, has no callback
SlotIsFree(i) ==
  /\ info[i].cb = "NULL"
  /\ info[i].cb_arg = 0
  /\ qtype \in TxTypes => info[i].nbufs = 0

\* a step of ionic_start_xmit, ionic_start_hwstamp_xmit or ionic_rx_fill
PostStep == StartXmit \/ RxFill \/ MtXmitBegin \/ MtXmitStep

\* C25: no submit or fill posts into a full ring: what a step posts, added
\* to what was outstanding, is at most N - 1 descriptors, so head_idx never
\* wraps onto tail_idx, and every slot posted into was free before the step:
\* it held no uncleaned packet and no mapping.
C25_PostsIntoFreeSlots ==
  [][PostStep =>
       /\ Advance(tail_idx, head_idx) + Advance(head_idx, head_idx') <= num_descs - 1
       /\ \A i \in PostedSlots : SlotIsFree(i)]_vars

\* a TX ring that two submissions have filled: seven of its eight slots
\* hold descriptors waiting for cleanup, and the slot at head_idx, the one
\* kept free, holds nothing
C25_TxRingFilled ==
  /\ qtype \in TxTypes
  /\ next_skb > MaxPkts
  /\ Mask(head_idx + 1) = tail_idx
  /\ \A i \in Slots \ {head_idx} : info[i].desc.op # "NONE"
  /\ SlotIsFree(head_idx)

(***************************************************************************)
(* Byte accounting of the segmentation.                                    *)
(***************************************************************************)
\* the chunks a descriptor references: its main buffer, then its
\* scatter-gather elements
DescChunks(d) == <<[buf |-> d.buf, off |-> d.off, len |-> d.len]>> \o d.elems

\* the chunks of all descriptors, in posting order
RECURSIVE TsoChunks(_)
TsoChunks(descs) ==
  IF descs = <<>> THEN <<>>
  ELSE DescChunks(Head(descs)) \o TsoChunks(Tail(descs))

ChunkEnd(c) == c.off + c.len

\* the chunks walk the mapped buffers byte by byte: they start at the first
\* byte of bufs[0], each begins where the one before ended (in the same
\* buffer, or at the start of the next buffer when the one before ended its
\* buffer), none is empty or leaves its buffer, and the last ends the last
\* buffer
ChunksCoverBuffers(ch, buflens) ==
  /\ ch # <<>>
  /\ ch[1].buf = 0 /\ ch[1].off = 0
  /\ \A i \in 1 .. Len(ch) :
       /\ ch[i].len >= 1
       /\ ch[i].buf \in 0 .. (Len(buflens) - 1)
       /\ ChunkEnd(ch[i]) <= buflens[ch[i].buf + 1]
  /\ \A i \in 1 .. (Len(ch) - 1) :
       \/ /\ ch[i + 1].buf = ch[i].buf
          /\ ch[i + 1].off = ChunkEnd(ch[i])
       \/ /\ ch[i + 1].buf = ch[i].buf + 1
          /\ ch[i + 1].off = 0
          /\ ChunkEnd(ch[i]) = buflens[ch[i].buf + 1]
  /\ ch[Len(ch)].buf = Len(buflens) - 1
  /\ ChunkEnd(ch[Len(ch)]) = buflens[Len(buflens)]

\* a descriptor's bytes are those of its main buffer and of its nsge
\* elements
DescBytes(d) == SumSeq([i \in 1 .. Len(DescChunks(d)) |-> DescChunks(d)[i].len])

\* C26: the descriptors of a TSO send carry the packet's length in all (main
\* buffer plus scatter-gather elements); the first carries min(L, H + MSS)
\* bytes, every later one at most MSS, every one but the last is full; and
\* the chunks reference every byte of every mapped buffer once, in order, a
\* fragment being split where it straddles a descriptor boundary.
C26_TsoBytesAccounted ==
  [][ TsoSent =>
        LET descs == ionic_tx_tso_descs(xskb.len, xskb.hdrlen, xskb.mss,
                                        xskb.buflens)
            n == Len(descs)
        IN /\ TsoPosted = n
           /\ \A k \in 0 .. (n - 1) :
                LET d == info'[TsoSlot(k)].desc
                IN /\ d.bytes = DescBytes(descs[k + 1])
                   /\ d.nsge = Len(descs[k + 1].elems)
                   /\ k = 0 => d.bytes = Min(xskb.len, xskb.hdrlen + xskb.mss)
                   /\ k > 0 => d.bytes <= xskb.mss
                   /\ (k > 0 /\ k < n - 1) => d.bytes = xskb.mss
           /\ TsoBytes(info', n) = xskb.len
           /\ SumSeq(xskb.buflens) = xskb.len
           /\ ChunksCoverBuffers(TsoChunks(descs), xskb.buflens) ]_vars

\* length 6, header 2, MSS 3, sent from two buffers: the first descriptor
\* carries 5 bytes, the linear part and the start of the fragment as its
\* one element, the second the fragment's last byte
C26_FragmentSplit ==
  /\ x_pc = "check4"
  /\ tail_idx = 0
  /\ head_idx = 2
  /\ info[0].nbufs = 2
  /\ info[0].desc.bytes = 5 /\ info[0].desc.nsge = 1
  /\ info[1].desc.bytes = 1 /\ info[1].desc.nsge = 0
  /\ info[1].desc.eot

(***************************************************************************)
(* The drain loop of ionic_tx_service against a device that may write any  *)
(* value into the 16-bit comp_index of a completion whose color matches.   *)
(* The loop is cut as in the concurrent specification: one step takes the  *)
(* slot at tail_idx, the next cleans it and tests index != comp_index.     *)
(* The values are every slot of the ring, the first value past the ring    *)
(* and the largest 16-bit value.                                           *)
(***************************************************************************)
CompIndexes == Slots \cup {num_descs, 2 ^ 16 - 1}

\* the packets of the drain: one buffer each, one descriptor or several
DrainSkbs(id) == { k \in Skbs(id) : Len(k.buflens) = 1 }

\* the stack submits a packet, segmented or not, and nothing fails
DrainXmit ==
  /\ qtype \in TxTypes
  /\ x_pc = "idle" /\ s_pc = "idle"
  /\ ~stopped
  /\ next_skb <= MaxPkts
  /\ \E skb \in DrainSkbs(next_skb) :
     \E env \in { e \in Envs(skb) : e.up /\ ~e.lin_fail /\ e.map_fail = -1
                                          /\ ~e.cow_fail /\ ~e.more } :
       Apply(ionic_start_xmit(Cur, skb, env))
  /\ UNCHANGED <<qtype, cq, hw_idx, s_pc, s_index>>

\* the device writes a completion with any comp_index, on a ring that
\* holds the packets of the run or has been drained of some or all of them
HwAnyIndex ==
  /\ qtype \in TxTypes
  /\ cq = <<>>
  /\ next_skb > MaxPkts
  /\ \E c \in CompIndexes : cq' = <<c>>
  /\ UNCHANGED <<qtype, head_idx, tail_idx, info, dbell, stopped, stop, wake,
                 drop, dma_map_err, mapped, bad_unmap, held, double_free,
                 xskb, xmit_ret, next_skb, hw_idx, x_pc, s_pc, s_index, mtu,
                 rx_stats, pages, page_ref, delivered, jiffies, dbell_jiffies,
                 dbell_deadline, napi_deadline, linearize>>

NextDrain ==
  \/ DrainXmit
  \/ HwAnyIndex
  \/ MtServiceBegin
  \/ MtServiceAdvance
  \/ MtServiceClean

\* the CPU keeps running the loop it is in
SpecDrain ==
  /\ InitTx
  /\ [][NextDrain]_vars
  /\ WF_vars(MtServiceBegin)
  /\ WF_vars(MtServiceAdvance)
  /\ WF_vars(MtServiceClean)

\* C27: servicing never blocks: whatever the 16-bit comp_index of a
\* color-matching completion, the drain loop of ionic_tx_service, once
\* entered, ends.
C27_DrainLoopEnds == (s_pc = "advance") ~> (s_pc = "idle")

\* the loop has cleaned every slot of the ring and goes on to take the next:
\* the comp_index it waits for is no slot of the ring
C27_DrainPastWholeRing ==
  /\ s_pc = "advance"
  /\ cq # <<>> /\ Head(cq) \notin Slots
  /\ next_skb > MaxPkts
  /\ head_idx = MaxPkts
  /\ tail_idx = head_idx
  /\ \A i \in Slots : info[i].cb = "NULL" /\ info[i].nbufs = 0
  /\ mapped = {} /\ held = {}

(***************************************************************************)
(* An RX queue whose allocations fail for a while and then succeed for     *)
(* good.  The poll routine is called again and again, whatever scheduled   *)
(* it; the device completes what the doorbell has announced; time passes.  *)
(***************************************************************************)
\* allocations fail up to MaxRxErr + 1 times (once when the queue is
\* enabled and once in a poll), and succeed from then on
RefillEnvs ==
  IF rx_stats.alloc_err + dma_map_err < MaxRxErr + 1
  THEN { e \in FillEnvs : e.fail_at <= 2 /\ e.fail_kind = "alloc" }
  ELSE { e \in FillEnvs : e.fail_at = 0 /\ e.fail_kind = "alloc" }

RefillEnable ==
  /\ head_idx = 0 /\ tail_idx = 0 /\ info[0].cb = "NULL"
  /\ rx_stats.alloc_err + dma_map_err = 0
  /\ \E fenv \in RefillEnvs : \E r \in {ionic_rx_fill(Cur, fenv)} : Apply(r)
  /\ UNCHANGED <<qtype, cq, hw_idx, s_pc, s_index>>

RefillRxNapi ==
  /\ \E budget \in Budgets : \E env \in NapiServiceEnvs :
     \E fenv \in RefillEnvs :
     \E r \in {ionic_rx_napi(Cur, budget, env, fenv)} :
       Apply(r) /\ cq' = r.cq
  /\ UNCHANGED <<qtype, hw_idx, s_pc, s_index>>

RefillTxRxNapi ==
  /\ \E budget \in Budgets : \E env \in NapiServiceEnvs :
     \E fenv \in RefillEnvs : \E other \in OtherQueue(0) :
     \E r \in {ionic_txrx_napi(Cur, budget, MaxBudget, env, fenv, other)} :
       Apply(r) /\ cq' = r.cq
  /\ UNCHANGED <<qtype, hw_idx, s_pc, s_index>>

NextRefill ==
  \/ Tick
  \/ NapiTimer
  \/ NapiRxComplete
  \/ RefillEnable
  \/ RefillRxNapi
  \/ RefillTxRxNapi

InitRefill == InitWith({"rx"}) /\ mtu = 1500

SpecRefill ==
  /\ InitRefill
  /\ [][NextRefill]_vars
  /\ WF_vars(Tick)
  /\ WF_vars(NapiTimer)
  /\ WF_vars(NapiRxComplete)
  /\ WF_vars(RefillRxNapi)
  /\ WF_vars(RefillTxRxNapi)

\* a fill pass has failed and the ring holds no posted descriptor
FillLeftRingEmpty ==
  /\ rx_stats.alloc_err + dma_map_err > 0
  /\ head_idx = tail_idx

\* C28: an RX queue recovers from a failed fill, also when the failure left
\* the ring with no posted descriptor at all: once allocations succeed
\* again a later fill pass driven from the poll routine posts descriptors.
C28_EmptyRingIsRefilled == FillLeftRingEmpty ~> (head_idx # tail_idx)

\* the state the queue stays in: the one descriptor posted when the queue
\* was enabled carried a packet and was serviced, the fill pass of that poll
\* failed on its first allocation, allocations now succeed, the ring is
\* empty, no completion is pending, the device has nothing to complete and
\* the timer is not armed
C28_RingLeftEmpty ==
  /\ FillLeftRingEmpty
  /\ rx_stats.alloc_err + dma_map_err = MaxRxErr + 1
  /\ rx_stats.pkts = 1
  /\ head_idx = 1
  /\ cq = <<>>
  /\ hw_idx = dbell
  /\ napi_deadline = 0

(***************************************************************************)
(* Announcing a submitted packet to the device.                            *)
(***************************************************************************)
\* a call of ionic_start_xmit with netdev_xmit_more() false that posts the
\* packet and does not drop it
SubmitNow ==
  /\ qtype \in TxTypes
  /\ x_pc = "idle" /\ s_pc = "idle"
  /\ ~stopped
  /\ next_skb <= MaxPkts
  /\ \E skb \in Skbs(next_skb) :
     \E env \in { e \in Envs(skb) : ~e.more } :
     \E r \in {ionic_start_xmit(Cur, skb, env)} :
       /\ Apply(r)
       /\ r.xmit_ret = "OK" /\ r.drop = drop /\ r.head_idx # head_idx
  /\ UNCHANGED <<qtype, cq, hw_idx, s_pc, s_index>>

\* C29: a packet submitted without xmit_more is announced before
\* ionic_start_xmit returns: the doorbell has been rung with the head index
\* past the packet's last descriptor, whether the packet is not segmented
\* or is a TSO packet of any number of descriptors, one included.
C29_SentIsAnnounced == [][SubmitNow => dbell' = head_idx']_vars

\* a TSO packet of one descriptor (start and end flags on it) was accepted
\* and the doorbell was not rung for it
C29_SingleTsoNotAnnounced ==
  /\ qtype \in TxTypes
  /\ x_pc = "idle"
  /\ xmit_ret = "OK" /\ drop = 0 /\ dma_map_err = 0
  /\ next_skb = 2
  /\ head_idx = 1 /\ tail_idx = 0
  /\ info[0].desc.op = "TSO" /\ info[0].desc.sot /\ info[0].desc.eot
  /\ info[0].cb_arg = 1
  /\ dbell = 0

(***************************************************************************)
(* The doorbell poke and the deadline timer.                               *)
(***************************************************************************)
\* the poke of the queue's kind
PokeOf(s) ==
  IF s.qtype = "rx" THEN ionic_rxq_poke_doorbell(s)
  ELSE ionic_txq_poke_doorbell(s)

\* what the poke p does when called in the current state
PokeRule(p) ==
  /\ ~p.armed
  /\ head_idx = tail_idx =>
       /\ p.ret = 0
       /\ ~p.rung
       /\ p.dbell = dbell /\ p.dbell_jiffies = dbell_jiffies
  /\ head_idx # tail_idx =>
       /\ p.ret = 1
       /\ p.rung = (jiffies - dbell_jiffies > dbell_deadline)
       /\ p.rung => (p.dbell = head_idx /\ p.dbell_jiffies = jiffies)
       /\ ~p.rung => (p.dbell = dbell /\ p.dbell_jiffies = dbell_jiffies)

\* what a poll r that did no work does to the timer, poked being whether a
\* poke it made returned true
TimerRule(r, poked) ==
  /\ r.armed = poked
  /\ r.armed => r.napi_deadline = jiffies + IONIC_NAPI_DEADLINE
  /\ ~r.armed => r.napi_deadline = napi_deadline

\* the polls of the queue's own routine that take nothing from the
\* completion queue
IdlePolls ==
  IF qtype = "rx"
  THEN { r \in { ionic_rx_napi(Cur, budget, env, fenv) :
                   budget \in Budgets, env \in NapiServiceEnvs,
                   fenv \in NapiFillEnvs } : r.ret = 0 }
  ELSE { r \in { ionic_tx_napi(Cur, budget) : budget \in Budgets } :
           r.ret = 0 }

\* the same of ionic_txrx_napi, the other queue of the pair having no work
\* either; its poke returned poke
IdlePairPolls(poke) ==
  { r \in { ionic_txrx_napi(Cur, budget, tx_budget, env, fenv,
                            [work_done |-> 0, poke |-> poke]) :
              budget \in Budgets, tx_budget \in Budgets,
              env \in NapiServiceEnvs, fenv \in NapiFillEnvs } :
      r.ret = 0 /\ r.cq = cq }

\* C30: the poke on an empty queue rings nothing and returns false; on a
\* non-empty queue it returns true, and it rings the doorbell and records
\* the time of the ring only if more than the deadline has passed since the
\* last ring; a poll that did no work arms the deadline timer exactly when
\* the poke (in ionic_txrx_napi: the poke of either queue) returned true.
C30_PokeAndTimer ==
  /\ \A p \in {PokeOf(Cur)} : PokeRule(p)
  /\ \A r \in IdlePolls : TimerRule(r, head_idx # tail_idx)
  /\ \A poke \in BOOLEAN : \A r \in IdlePairPolls(poke) :
       TimerRule(r, head_idx # tail_idx \/ poke)

\* a TX queue just after a poll that found no completion: the descriptors
\* posted are still outstanding, exactly the deadline has passed since the
\* last ring, so the poke did not ring, and the timer was armed
C30_ArmedWithoutRing ==
  /\ qtype \in TxTypes
  /\ head_idx # tail_idx
  /\ cq = <<>>
  /\ jiffies - dbell_jiffies = dbell_deadline
  /\ napi_deadline = jiffies + IONIC_NAPI_DEADLINE

(***************************************************************************)
(* Properties of the descriptors ionic_rx_fill posts.                      *)
(***************************************************************************)
\* slot i holds a descriptor ionic_rx_fill posted that has not been
\* serviced
RxPosted(i) == info[i].cb = "ionic_rx_clean"

\* C31: every descriptor ionic_rx_fill has posted covers the receive
\* length: the lengths of its main buffer and scatter-gather elements sum
\* to MTU + ETH_HLEN + VLAN_HLEN, each is non-zero and lies between its
\* segment's page_offset and the end of the page, the slot records the
\* number of buffers used, at most max_sg_elems + 1, and the opcode is
\* SIMPLE for one buffer and SG for more.
C31_RxDescCoversLength ==
  qtype = "rx" =>
    \A i \in Slots :
      RxPosted(i) =>
        LET lens == info[i].desc.lens
        IN /\ SumSeq(lens) = mtu + ETH_HLEN + VLAN_HLEN
           /\ info[i].nbufs = Len(lens)
           /\ Len(lens) \in 1 .. (max_sg_elems + 1)
           /\ \A b \in 1 .. Len(lens) :
                /\ lens[b] >= 1
                /\ info[i].bufs[b - 1].page # 0
                /\ info[i].bufs[b - 1].page_offset + lens[b] <= IONIC_PAGE_SIZE
           /\ info[i].desc.op = (IF Len(lens) = 1 THEN "RXQ_SIMPLE" ELSE "RXQ_SG")

\* a queue with the large MTU after two completions were serviced and the
\* ring refilled: the slot posted again has two buffers, a whole page and the
\* rest of the length, and the opcode SG
C31_TwoBuffersPosted ==
  /\ qtype = "rx"
  /\ mtu = 8000
  /\ tail_idx = 2 /\ head_idx = 1
  /\ RxPosted(0)
  /\ info[0].nbufs = 2
  /\ info[0].desc.lens = <<IONIC_PAGE_SIZE, 8000 + ETH_HLEN + VLAN_HLEN - IONIC_PAGE_SIZE>>
  /\ info[0].desc.op = "RXQ_SG"


(***************************************************************************)
(* Page references under page splitting                                    *)
(***************************************************************************)
\* the buffers that hold a page
HeldSegments ==
  { sb \in Slots \X (0 .. (NumBufs - 1)) : info[sb[1]].bufs[sb[2]].page # 0 }

\* C32: with IONIC_PAGE_ORDER > 0, in every state a buffer that holds a page
\* has a pagecnt_bias of zero or more, the page's reference count is the
\* driver's own reference plus pagecnt_bias plus the fragments of the page
\* that delivered packets hold, and no page the driver let go of (given to
\* a packet because it was not kept, or freed) has a reference left on it
\* that nobody holds, or one reference too few.
C32_PageRefBalance ==
  (qtype = "rx" /\ IONIC_PAGE_ORDER > 0) =>
    /\ \A sb \in HeldSegments :
         LET buf == info[sb[1]].bufs[sb[2]]
         IN /\ buf.pagecnt_bias >= 0
            /\ page_ref.count[buf.page] =
                 1 + buf.pagecnt_bias + page_ref.frags[buf.page]
    /\ page_ref.left = 0

\* the first packet of a fresh split page went up by the fragment path, the
\* page was not reusable, and the reference ionic_rx_fill added for the
\* second half is still counted on the page the packet now owns
C32_BiasReferenceLeft ==
  /\ qtype = "rx" /\ mtu = 1500
  /\ delivered.pkts = 1
  /\ Len(delivered.last) = 1
  /\ ~delivered.last[1].copied /\ ~delivered.last[1].reusable
  /\ delivered.last[1].off = 0
  /\ delivered.last[1].page \notin pages
  /\ page_ref.left = 1

(***************************************************************************)
(* What the slots of a TSO packet record.                                  *)
(***************************************************************************)
\* the slot was last posted as the first (SOT) descriptor of a TSO packet,
\* or as one of its other descriptors
TsoFirstSlot(i) == info[i].desc.op = "TSO" /\ info[i].desc.sot
TsoOtherSlot(i) == info[i].desc.op = "TSO" /\ ~info[i].desc.sot

\* C33: of the slots of a TSO packet that are posted and not yet taken, the
\* first has the callback ionic_tx_clean, the packet as callback argument
\* and the packet's buffers (nbufs >= 1), every other one has no callback,
\* no callback argument and nbufs = 0; and when ionic_tx_service cleans a
\* slot it took, the first slot of a TSO packet still records the buffers,
\* the step unmaps exactly those and releases the packet, and the step on
\* any other slot of a TSO packet unmaps nothing and releases nothing.
C33_TsoFirstSlotOwnsAll ==
  /\ [](\A i \in Outstanding :
          /\ TsoFirstSlot(i) =>
               (/\ info[i].cb = "ionic_tx_clean"
                /\ info[i].cb_arg \in held
                /\ info[i].nbufs >= 1)
          /\ TsoOtherSlot(i) =>
               (/\ info[i].cb = "NULL"
                /\ info[i].cb_arg = 0
                /\ info[i].nbufs = 0))
  /\ [][MtServiceClean =>
          /\ TsoFirstSlot(s_index) =>
               (/\ info[s_index].nbufs >= 1
                /\ mapped' = mapped \ RecordedIn(s_index)
                /\ held' = held \ {info[s_index].cb_arg})
          /\ TsoOtherSlot(s_index) =>
               (mapped' = mapped /\ held' = held)]_vars

\* ionic_tx_service has taken the first slot of a TSO packet and is about
\* to clean it: the slot still names the packet, the packet's first buffer
\* is still mapped, and nbufs is already zero
C33_FirstSlotForgotBuffers ==
  /\ s_pc = "clean"
  /\ TsoFirstSlot(s_index)
  /\ info[s_index].cb = "ionic_tx_clean"
  /\ info[s_index].cb_arg \in held
  /\ info[s_index].nbufs = 0
  /\ info[s_index].bufs[0].dma_addr \in mapped

(***************************************************************************)
(* The timestamping submit path.                                           *)
(***************************************************************************)
\* ionic_start_hwstamp_xmit goes to err_out_drop: the descriptor demand is
\* an error, or the queue has no space for it, or ionic_tx / ionic_tx_tso
\* returns an error
HwstampFails(skb, env) ==
  \E n \in {ionic_tx_descs_needed([Cur EXCEPT !.xskb = skb], env)} :
    \/ n.ret < 0
    \/ ~ionic_q_has_space(n, n.ret)
    \/ (IF n.xskb.gso THEN ionic_tx_tso(n, env) ELSE ionic_tx(n, env)).ret # 0

\* C34: a call of ionic_start_hwstamp_xmit, whatever the packet and whatever
\* fails, leaves the stopped flag and the stop and wake counts as they were
\* and returns NETDEV_TX_OK; when the descriptor demand is an error, the
\* queue lacks space for it or the send returns an error, the drop counter
\* is one higher, the packet is released (once), and head_idx, the doorbell
\* and every slot's callback and callback argument are as before; otherwise
\* the packet is posted and nothing is counted as dropped.
C34_HwstampNeverStops ==
  (qtype = "hwstamp" /\ x_pc = "idle" /\ next_skb <= MaxPkts)
    => \A skb \in Skbs(next_skb) : \A env \in Envs(skb) :
         env.up
           => \A r \in {ionic_start_xmit(Cur, skb, env)} :
                /\ r.stopped = stopped /\ r.stop = stop /\ r.wake = wake
                /\ r.xmit_ret = "OK"
                /\ r.x_pc = "idle"
                /\ IF HwstampFails(skb, env)
                   THEN /\ r.drop = drop + 1
                        /\ r.held = held
                        /\ r.double_free = double_free
                        /\ r.head_idx = head_idx
                        /\ r.dbell = dbell
                        /\ \A i \in Slots :
                             /\ r.info[i].cb = info[i].cb
                             /\ r.info[i].cb_arg = info[i].cb_arg
                   ELSE /\ r.drop = drop
                        /\ r.held = held \cup {skb.id}
                        /\ r.head_idx # head_idx

\* the timestamping queue holds five descriptors of the first packet, the
\* second packet was dropped, and the queue was never stopped
C34_DroppedOnFullQueue ==
  /\ qtype = "hwstamp"
  /\ next_skb = 3 /\ x_pc = "idle"
  /\ xmit_ret = "OK"
  /\ Advance(tail_idx, head_idx) = 5
  /\ held = {1}
  /\ drop = 1 /\ dma_map_err = 0
  /\ stop = 0 /\ wake = 0 /\ ~stopped

(***************************************************************************)
(* RX accounting.  The device also reports checksum results: csum_flags is *)
(* the set of the bits it sets, "CALC" standing for                        *)
(* IONIC_RXQ_COMP_CSUM_F_CALC, which is not an error.                      *)
(***************************************************************************)
CsumFlagSets ==
  {{}, {"CALC"}, {"TCP_BAD"}, {"UDP_BAD"}, {"IP_BAD", "CALC"},
   {"TCP_BAD", "IP_BAD"}}

HwRxCsum ==
  /\ qtype = "rx"
  /\ hw_idx # head_idx
  /\ rx_stats.pkts + rx_stats.dropped + Len(cq) < MaxRx
  /\ \E st \in {0, 1} : \E l \in RxLens(mtu) : \E fl \in CsumFlagSets :
       cq' = Append(cq, [color |-> TRUE, comp_index |-> hw_idx,
                         status |-> st, len |-> l,
                         num_sg_elems |->
                            NumSgElems(info[hw_idx].desc.lens, l, 1),
                         csum_flags |-> fl])
  /\ hw_idx' = Mask(hw_idx + 1)
  /\ UNCHANGED <<qtype, head_idx, tail_idx, info, dbell, stopped, stop, wake,
                 drop, dma_map_err, mapped, bad_unmap, held, double_free,
                 xskb, xmit_ret, next_skb, x_pc, s_pc, s_index, mtu,
                 rx_stats, pages, page_ref, delivered, jiffies,
                 dbell_jiffies, dbell_deadline, napi_deadline, linearize>>

NextCsum ==
  \/ HwRxCsum
  \/ RxFill
  \/ RxService

SpecCsum == InitWith({"rx"}) /\ [][NextCsum]_vars

\* a step of ionic_rx_service that consumed the completion at the tail of
\* the completion queue
RxConsumed == RxService /\ tail_idx' # tail_idx

\* C35: every completion ionic_rx_service consumes raises exactly one of
\* pkts and dropped, by one; in every state pkts is the number of packets
\* delivered to the stack and bytes the sum of their lengths; a delivered
\* packet raises csum_error by one when its completion has a bad-checksum
\* flag (TCP, UDP or IP; by one, however many are set) and by nothing
\* otherwise; and a completion with status 0 and a length within the MTU
\* bound, whose packet could be allocated, is delivered and not counted as
\* dropped whatever its checksum flags.
C35_RxAccounting ==
  /\ [](qtype = "rx" => /\ rx_stats.pkts = delivered.pkts
                        /\ rx_stats.bytes = delivered.bytes)
  /\ [][RxConsumed =>
          /\ \/ /\ rx_stats'.pkts = rx_stats.pkts + 1
                /\ rx_stats'.dropped = rx_stats.dropped
             \/ /\ rx_stats'.pkts = rx_stats.pkts
                /\ rx_stats'.dropped = rx_stats.dropped + 1
          /\ rx_stats'.csum_error =
               rx_stats.csum_error +
                 (IF /\ delivered'.pkts = delivered.pkts + 1
                     /\ Head(cq).csum_flags \cap CsumBadFlags # {}
                  THEN 1 ELSE 0)
          /\ (RxGoodComp /\ rx_stats'.alloc_err = rx_stats.alloc_err)
               => /\ delivered'.pkts = delivered.pkts + 1
                  /\ rx_stats'.dropped = rx_stats.dropped]_vars

\* one completion was consumed, the allocation of its packet failed, and it
\* is counted both as a packet and as dropped; nothing was delivered
C35_CountedTwice ==
  /\ qtype = "rx"
  /\ tail_idx = 1 /\ cq = <<>>
  /\ rx_stats.alloc_err = 1
  /\ rx_stats.pkts = 1 /\ rx_stats.dropped = 1
  /\ rx_stats.bytes > 0
  /\ delivered.pkts = 0 /\ delivered.bytes = 0
====
